---- MODULE Spec2Model ----
(***************************************************************************)
(* State-machine model of PriceTakerModel                                  *)
(* (src/idaes/apps/grid_integration/multiperiod/price_taker_model.py) and  *)
(* of the unit costing routines (src/idaes/core/util/unit_costing.py).     *)
(*                                                                         *)
(* Prices are fixed-point integers in units of 1e-5, so the clamp          *)
(* threshold 1e-4 of cluster_lmp_data is the integer 10.                   *)
(* An optional Python value is a tuple: None is <<>> and x is <<x>>.       *)
(* A Python exception is recorded in err by its class name; "none" means   *)
(* the call returned, "NoReturn" that it never returns.                    *)
(***************************************************************************)
EXTENDS Integers, Sequences, FiniteSets, TLC

VARIABLES
    seed,            \* self._seed
    horizon_length,  \* self._horizon_length
    defined,         \* names of the attributes that exist on the model object
    set_years,       \* self.set_years: None or a list of integers
    set_days,        \* self.set_days: None or a RangeSet
    n_time_points,   \* self._n_time_points
    set_time,        \* self.set_time: a RangeSet
    LMP,             \* self.LMP: key tuple -> price
    WEIGHTS,         \* self.WEIGHTS: key tuple -> weight
    mp_model,        \* self.mp_model: the multi-period model and what is attached to it
    components,      \* the components the builder steps attached to the model object
    invoked,         \* which of the builder operations have been invoked so far
    rng,             \* the state of numpy's global random source
    declared,        \* names of the attributes that are components of the model block
    costing,         \* the costing blocks of a flowsheet and of one of its units
    params,          \* the parameter block of a property package: its phases and components
    state_block,     \* a state block being built: its components and the pairs handled
    call,            \* the last operation invoked, with its arguments
    ret,             \* what the last operation returned (or had computed when it raised)
    err              \* the exception the last operation raised, or "none"

vars == <<seed, horizon_length, defined, set_years, set_days, n_time_points,
          set_time, LMP, WEIGHTS, mp_model, components, invoked, costing, rng, declared,
          params, state_block, call, ret, err>>

dataVars == <<set_years, set_days, n_time_points, set_time, LMP, WEIGHTS, declared>>
buildVars == <<mp_model, components, invoked>>
vleVars == <<params, state_block>>

-----------------------------------------------------------------------------
(* Bounds of the model *)

\* rows of the short spreadsheets: 0..SmallRows
SmallRows == 5
\* rows of the long spreadsheet
LongRows == 50

-----------------------------------------------------------------------------
(* Python values *)

None == <<>>
Some(x) == <<x>>

\* RangeSet(a, b) with step 1: the integers a..b
RangeSet(a, b) == a .. b

Min(a, b) == IF a <= b THEN a ELSE b

-----------------------------------------------------------------------------
(* The spreadsheet read by pd.read_excel: a date column, a scenario column *)
(* and the price columns.                                                  *)

Columns == <<"Date", "Scenario", "2022", "2025", "price">>

ColumnSet == {Columns[i] : i \in 1..Len(Columns)}

\* the value in row r (counted from 1) of column c
Cell(c, r) ==
    CASE c = "2022" -> ((r * r) % 31) - 6
      [] c = "2025" -> 1000 - r
      [] c = "price" -> 100 * r
      [] OTHER -> r

\* a DataFrame with L rows
Sheet(L) == [kind |-> "frame", columns |-> Columns, nrows |-> L]

\* full_data[c]: a Series
Series(sheet, c) ==
    [kind |-> "series", values |-> [r \in 1..sheet.nrows |-> Cell(c, r)]]

SheetLens == (0..SmallRows) \cup {LongRows}

-----------------------------------------------------------------------------
(* generate_daily_data *)

\* (mutation of Slice: the window starts one sample late)
SliceLate(values, i, j) == SubSeq(values, i + 2, Min(j + 1, Len(values)))

\* raw_data[i:j].reset_index(drop=True) for 0 <= i <= j
Slice(values, i, j) == SubSeq(values, i + 1, Min(j, Len(values)))

\* pd.DataFrame(columns=day_list): the column labels in order and, per column,
\* its values (no rows yet)
EmptyFrame(day_list) ==
    [cols |-> day_list, data |-> [k \in 1..Len(day_list) |-> <<>>]]

\* the position of label day among the columns, 0 when it is not one
ColumnPos(cols, day) ==
    IF \E k \in 1..Len(cols) : cols[k] = day
    THEN CHOOSE k \in 1..Len(cols) : cols[k] = day
    ELSE 0

\* daily_data[day] = column: replaces the column labelled day, or appends it
SetColumn(table, day, column) ==
    LET k == ColumnPos(table.cols, day)
    IN  IF k = 0
        THEN [cols |-> Append(table.cols, day), data |-> Append(table.data, column)]
        ELSE [cols |-> table.cols, data |-> [table.data EXCEPT ![k] = column]]

\* one pass of the while loop over its local variables i, j, day, daily_data
RECURSIVE DailyLoop(_, _, _)
DailyLoop(values, h, st) ==
    IF st.j <= Len(values)
    THEN DailyLoop(values, h,
             [i |-> st.j, j |-> st.j + h, day |-> st.day + 1,
              daily_data |-> SetColumn(st.daily_data, st.day,
                                       Slice(values, st.i, st.j))])
    ELSE st.daily_data

\* the while loop leaves only if j grows past len(raw_data)
generate_daily_data(values, day_list, h) ==
    IF h <= 0
    THEN [err |-> "NoReturn", daily_data |-> EmptyFrame(day_list)]
    ELSE [err |-> "none",
          daily_data |-> DailyLoop(values, h,
              [i |-> 0, j |-> h, day |-> 1, daily_data |-> EmptyFrame(day_list)])]

-----------------------------------------------------------------------------
(* reconfigure_raw_data *)

NoFrame == EmptyFrame(<<>>)

reconfigure_raw_data(raw_data, h) ==
    IF raw_data.kind # "frame"
    THEN \* a Series has no attribute columns
         [err |-> "AttributeError", daily_data |-> NoFrame, scenarios |-> <<>>]
    ELSE
    LET column_head == raw_data.columns
        scenarios == SubSeq(column_head, 3, Len(column_head))
    IN  IF h = 0
        THEN [err |-> "ZeroDivisionError", daily_data |-> NoFrame,
              scenarios |-> scenarios]
        ELSE IF scenarios = <<>>
        THEN [err |-> "UnboundLocalError", daily_data |-> NoFrame,
              scenarios |-> scenarios]
        ELSE
        LET day_list == IF h > 0
                        THEN [d \in 1..(raw_data.nrows \div h) |-> d]
                        ELSE <<>>
            g == generate_daily_data(Series(raw_data, scenarios[1]).values,
                                     day_list, h)
        IN  [err |-> g.err, daily_data |-> g.daily_data, scenarios |-> scenarios]

-----------------------------------------------------------------------------
(* The clustering library: KMeans(n_clusters=k).fit(samples)               *)

\* the fit raises ValueError unless 1 <= k <= number of samples
KMeansRefuses(samples, k) == k < 1 \/ k > Len(samples)

RECURSIVE SumOver(_, _, _)
SumOver(samples, members, t) ==
    IF members = {} THEN 0
    ELSE LET j == CHOOSE x \in members : TRUE
         IN  samples[j][t] + SumOver(samples, members \ {j}, t)

\* a centre is the mean of the samples labelled with it
Center(samples, members) ==
    IF members = {} THEN samples[1]
    ELSE [t \in 1..Len(samples[1]) |->
             SumOver(samples, members, t) \div Cardinality(members)]

\* the fit that ends with the labelling lab: labels_ (one label in 0..k-1 per
\* sample, in sample order) and cluster_centers_ (row c+1 is the centre
\* labelled c)
KMeansFit(samples, k, lab) ==
    [labels_ |-> [j \in 1..Len(samples) |-> lab[j]],
     cluster_centers_ |->
         [c \in 1..k |->
             Center(samples, {j \in 1..Len(samples) : lab[j] = c - 1})]]

\* the fits the library may return
KMeansFits(samples, k) ==
    { KMeansFit(samples, k, lab) : lab \in [1..Len(samples) -> 0..(k - 1)] }

\* numpy's global random source, np.random: its states, the state that
\* np.random.seed(s) puts it in, and the state that the draws of one fit leave
RngPeriod == 4
RngStates == 0..(RngPeriod - 1)
SeedState(s) == s % RngPeriod
AfterFit(state) == (state + 1) % RngPeriod

RECURSIVE Power(_, _)
Power(k, j) == IF j = 0 THEN 1 ELSE k * Power(k, j - 1)

\* KMeans(n_clusters=k) has random_state=None: the fit starts from centres
\* drawn from np.random, and the labelling it ends with goes with the draws
Drawn(state, n_samples, k) ==
    [j \in 1..n_samples |-> (state \div Power(k, j - 1)) % k]

\* KMeans(n_clusters=k).fit(samples) with np.random in the given state
KMeansFitFrom(samples, k, state) ==
    KMeansFit(samples, k, Drawn(state, Len(samples), k))

\* kmeans.inertia_ of the fit with k clusters in a sweep, by the shape of the
\* inertia curve the data gives
Curves == {"flat", "convex"}
Inertia(curve, k) == IF curve = "flat" THEN 0 ELSE (40 - k) * (40 - k)

-----------------------------------------------------------------------------
(* get_optimal_n_clusters *)

DefaultKmin == 4
DefaultKmax == 30

\* (mutation of Range: the upper end is included)
RangeInclusive(a, b) == [i \in 1..(IF b >= a THEN b - a + 1 ELSE 0) |-> a + i - 1]

\* range(a, b) as a list
Range(a, b) == [i \in 1..(IF b > a THEN b - a ELSE 0) |-> a + i - 1]

\* what KneeLocator(...).knee may be: None, or one of the k values (here the
\* first, the middle or the last of them)
Knees(k_values) ==
    LET n == Len(k_values)
    IN  {None} \cup {Some(k_values[i]) : i \in {1, (n + 1) \div 2, n} \cap (1..n)}

\* the sweep: the k values fitted, in order, up to the first that the library
\* refuses
RECURSIVE Sweep(_, _, _, _)
Sweep(k_values, n_samples, curve, st) ==
    IF st.next > Len(k_values) THEN st
    ELSE LET k == k_values[st.next]
         IN  IF k < 1 \/ k > n_samples
             THEN [st EXCEPT !.err = "ValueError",
                             !.calls = Append(@, <<"KMeans", k>>)]
             ELSE Sweep(k_values, n_samples, curve,
                        [next |-> st.next + 1,
                         err |-> "none",
                         calls |-> Append(st.calls, <<"KMeans", k>>),
                         inertia_values |->
                             Append(st.inertia_values, Inertia(curve, k)),
                         streams |-> Append(st.streams, st.rng),
                         rng |-> AfterFit(st.rng)])

\* (mutation of Seeded: the random source is left as it is)
Unseeded(the_seed, state) == state

\* np.random.seed(self._seed) with np.random in the given state
Seeded(the_seed, state) == SeedState(the_seed)

\* the outcomes of get_optimal_n_clusters(daily_data, kmin, kmax) with
\* np.random in the given state; streams holds the state of np.random that
\* each fit began with, curve the shape of the inertia curve of the data
get_optimal_n_clusters(daily_data, kmin_arg, kmax_arg, the_seed, state) ==
    LET kmin == IF kmin_arg = None THEN DefaultKmin ELSE kmin_arg[1]
        kmax == IF kmax_arg = None THEN DefaultKmax ELSE kmax_arg[1]
        k_values == Range(kmin, kmax)
        n_samples == Len(daily_data.cols)
    IN  UNION { LET sw == Sweep(k_values, n_samples, curve,
                              [next |-> 1, err |-> "none",
                               calls |-> << <<"np.random.seed", the_seed>> >>,
                               inertia_values |-> <<>>,
                               streams |-> <<>>,
                               rng |-> Seeded(the_seed, state)])
                    out == [kmin |-> kmin, kmax |-> kmax, calls |-> sw.calls,
                            inertia_values |-> sw.inertia_values,
                            streams |-> sw.streams, curve |-> curve,
                            knee |-> None, n_clusters |-> None]
                IN  IF sw.err # "none"
                    THEN {[err |-> sw.err, ret |-> out, rng |-> sw.rng]}
                    ELSE IF k_values = <<>>
                    THEN \* the knee detector is given no points
                         {[err |-> "ValueError", ret |-> out, rng |-> sw.rng]}
                    ELSE { IF knee = None
                           THEN \* n_clusters + 2 with n_clusters None
                                [err |-> "TypeError", ret |-> out, rng |-> sw.rng]
                           ELSE [err |-> "none",
                                 ret |-> [out EXCEPT !.knee = knee,
                                                     !.n_clusters = knee],
                                 rng |-> sw.rng] :
                           knee \in Knees(k_values) }
              : curve \in Curves }

-----------------------------------------------------------------------------
(* cluster_lmp_data *)

\* range(24) of the clamp loop
ClampHours == 24
\* 1e-4 in units of 1e-5
Threshold == 10

\* for t in range(24): if centroids[d][t] < 1e-4: centroids[d][t] = 0
ClampCentroid(centroid) ==
    [t \in 1..Len(centroid) |->
        IF t <= ClampHours /\ centroid[t] < Threshold THEN 0 ELSE centroid[t]]

\* (mutation of CountLabels: the last label is not counted)
RECURSIVE CountLabelsShort(_, _, _)
CountLabelsShort(labels, j, weights_counter) ==
    IF j >= Len(labels) THEN weights_counter
    ELSE CountLabelsShort(labels, j + 1,
             [k \in DOMAIN weights_counter |->
                 IF labels[j] = k THEN weights_counter[k] + 1
                                  ELSE weights_counter[k]])

\* the counting loop over the labels, j = 0 .. len(labels)-1
RECURSIVE CountLabels(_, _, _)
CountLabels(labels, j, weights_counter) ==
    IF j > Len(labels) THEN weights_counter
    ELSE CountLabels(labels, j + 1,
             [k \in DOMAIN weights_counter |->
                 IF labels[j] = k THEN weights_counter[k] + 1
                                  ELSE weights_counter[k]])

\* what cluster_lmp_data returns for one fit
ClusterOutcome(fit, n_clusters, scenarios) ==
    LET centroids == [d \in 1..n_clusters |->
                         ClampCentroid(fit.cluster_centers_[d])]
        weights_counter == CountLabels(fit.labels_, 1,
                                       [k \in 0..(n_clusters - 1) |-> 0])
    IN  [err |-> "none",
         \* DataFrame(centroids.transpose(), columns=range(1, n+1)).to_dict():
         \* day d -> row index (from 0) -> value
         lmp_data |-> [d \in 1..n_clusters |->
                          [t \in 0..(Len(centroids[d]) - 1) |-> centroids[d][t + 1]]],
         \* DataFrame(weights_counter) reindexed from 1, .to_dict():
         \* column 0 -> index -> count
         weights |-> [z \in {0} |->
                         [k \in 1..n_clusters |-> weights_counter[k - 1]]],
         labels |-> fit.labels_,
         centers |-> fit.cluster_centers_,
         scenarios |-> scenarios]

\* an outcome, with the state the call leaves np.random in
WithRng(o, state) == [rng |-> state] @@ o

ClusterError(e, scenarios) ==
    [err |-> e, lmp_data |-> <<>>, weights |-> <<>>, labels |-> <<>>,
     centers |-> <<>>, scenarios |-> scenarios]

\* the outcomes of cluster_lmp_data(raw_data, n_clusters, scenarios)
\* with np.random in the given state
cluster_lmp_data(raw_data, n_clusters, h, state) ==
    LET r == reconfigure_raw_data(raw_data, h)
        samples == r.daily_data.data
    IN  IF r.err # "none" THEN {WithRng(ClusterError(r.err, r.scenarios), state)}
        ELSE IF KMeansRefuses(samples, n_clusters)
        THEN {WithRng(ClusterError("ValueError", r.scenarios), state)}
        ELSE IF h < ClampHours
        THEN \* centroids[d][t] with t = h
             {WithRng(ClusterError("IndexError", r.scenarios), AfterFit(state))}
        ELSE {WithRng(ClusterOutcome(KMeansFitFrom(samples, n_clusters, state),
                                     n_clusters, r.scenarios),
                      AfterFit(state))}

-----------------------------------------------------------------------------
(* append_lmp_data *)

\* n_time_points when the caller gives no horizon_length
DefaultTimePoints == 24

\* int(y) of a column label; ValueError when the label is no number
IsIntLabel(label) == label \in {"2022", "2025", "2030"}
IntOf(label) ==
    CASE label = "2022" -> 2022
      [] label = "2025" -> 2025
      [] label = "2030" -> 2030

\* d[k] = v on a dict
Put(d, k, v) == (k :> v) @@ d

\* the key of LMP and of WEIGHTS, with the year y when there is one
LmpKey(t, d, y) == IF y = None THEN <<t, d>> ELSE <<t, d, y[1]>>
WeightKey(d, y) == IF y = None THEN <<d>> ELSE <<d, y[1]>>

\* for t in self.set_time, for one day d: the rows 1..times are read in order
\* and lmp_data[d][t] raises KeyError at the first t the profile has no row for
FillDay(lmp_data, weights, d, times, y, st) ==
    LET missing == {t \in 1..times : t \notin DOMAIN lmp_data[d]}
        upto == IF missing = {} THEN times
                ELSE (CHOOSE t \in missing : \A u \in missing : t <= u) - 1
    IN  [err |-> IF missing = {} THEN "none" ELSE "KeyError",
         LMP |-> [k \in {LmpKey(t, d, y) : t \in 1..upto} |->
                     lmp_data[d][k[1]]] @@ st.LMP,
         WEIGHTS |-> IF upto >= 1
                     THEN Put(st.WEIGHTS, WeightKey(d, y), weights[0][d])
                     ELSE st.WEIGHTS]

\* for d in self.set_days, from day d on
RECURSIVE Fill(_, _, _, _, _, _, _)
Fill(lmp_data, weights, d, days, times, y, st) ==
    IF d > days THEN st
    ELSE LET f == FillDay(lmp_data, weights, d, times, y, st)
         IN  IF f.err # "none" THEN f
             ELSE Fill(lmp_data, weights, d + 1, days, times, y, f)

\* for year in column_name, in the representative-day branch, from year i on
RECURSIVE RepYears(_, _, _, _, _, _, _)
RepYears(full_data, names, i, n_clusters, times, h, st) ==
    IF i > Len(names) THEN {st}
    ELSE IF names[i] \notin ColumnSet
    THEN {[st EXCEPT !.err = "KeyError"]}
    ELSE UNION {
           IF o.err # "none"
           THEN {[st EXCEPT !.err = o.err, !.rng = o.rng]}
           ELSE LET f == WithRng(Fill(o.lmp_data, o.weights, 1, n_clusters, times,
                                      Some(IntOf(names[i])), st), o.rng)
                IN  IF f.err # "none" THEN {f}
                    ELSE RepYears(full_data, names, i + 1, n_clusters, times, h, f)
           : o \in cluster_lmp_data(Series(full_data, names[i]), n_clusters, h,
                                    st.rng) }

\* (mutation of RawSample: the sample before is read)
RawSampleBefore(price_data, t) == price_data[IF t > 1 THEN t - 1 ELSE 1]

\* price_data[t - 1]: the t-th sample, rows counted from 0
RawSample(price_data, t) == price_data[t]

\* for year in column_name, in the full-year branch, from year i on
RECURSIVE FullYears(_, _, _, _)
FullYears(full_data, names, i, st) ==
    IF i > Len(names) THEN st
    ELSE IF names[i] \notin ColumnSet
    THEN [st EXCEPT !.err = "KeyError"]
    ELSE LET price_data == Series(full_data, names[i]).values
             y == IntOf(names[i])
         IN  FullYears(full_data, names, i + 1,
                 [st EXCEPT !.LMP =
                     [k \in {<<t, y>> : t \in 1..full_data.nrows} |->
                         RawSample(price_data, k[1])] @@ @])

EmptyDict == <<>>

\* the model object before a multi-period model or a component is attached
NoModel == <<>>
NoComponents == <<>>

\* self.set_days = None: the model is a Pyomo block. When set_days is a
\* component of the block, the block hands a value that is no component to the
\* set_value of that component, and a RangeSet has none (DeveloperError); the
\* component stays as it is. When set_days is a plain attribute it is
\* overwritten.
RefusesValue(old) == "set_days" \in old.declared

\* self.set_days = RangeSet(...): a component assigned to a name the block
\* does not have yet becomes a component of the block; assigned to a plain
\* attribute it overwrites the attribute
DeclaredAfterDays(old, was_defined) ==
    IF was_defined THEN old.declared ELSE old.declared \cup {"set_days"}

\* the outcomes of append_lmp_data: the exception, the attributes as they are
\* when the call ends, and the names of the attributes it assigned.
\* column_name is [list |-> is it a list, names |-> the label or labels];
\* old holds the attributes before the call.
append_lmp_data(full_data, column_name, n_clusters, hl, h, old, was_defined) ==
    IF column_name.list /\ n_clusters # None
    THEN \* multiple years and representative days
         IF \E k \in 1..Len(column_name.names) : ~IsIntLabel(column_name.names[k])
         THEN {[old EXCEPT !.err = "ValueError"]}
         ELSE
         LET ntp == IF hl # None THEN hl[1] ELSE DefaultTimePoints
             st == [err |-> "none", LMP |-> EmptyDict, WEIGHTS |-> EmptyDict,
                    rng |-> old.rng]
         IN  { [err |-> f.err,
                assigned |-> {"set_years", "set_days", "_n_time_points",
                              "set_time", "LMP", "WEIGHTS"},
                set_years |-> Some([k \in 1..Len(column_name.names) |->
                                       IntOf(column_name.names[k])]),
                set_days |-> Some(RangeSet(1, n_clusters[1])),
                n_time_points |-> ntp,
                set_time |-> RangeSet(1, ntp),
                LMP |-> f.LMP,
                WEIGHTS |-> f.WEIGHTS,
                rng |-> f.rng,
                declared |-> DeclaredAfterDays(old, was_defined)]
               : f \in RepYears(full_data, column_name.names, 1, n_clusters[1],
                                ntp, h, st) }
    ELSE IF column_name.list
    THEN \* multiple years, full-year price signal
         IF \E k \in 1..Len(column_name.names) : ~IsIntLabel(column_name.names[k])
         THEN {[old EXCEPT !.err = "ValueError"]}
         ELSE IF RefusesValue(old)
         THEN {[old EXCEPT !.err = "DeveloperError",
                           !.assigned = {"set_years"},
                           !.set_years =
                               Some([k \in 1..Len(column_name.names) |->
                                        IntOf(column_name.names[k])])]}
         ELSE
         LET f == FullYears(full_data, column_name.names, 1,
                            [err |-> "none", LMP |-> EmptyDict])
         IN  { [err |-> f.err,
                assigned |-> {"set_years", "set_days", "_n_time_points",
                              "set_time", "LMP"},
                set_years |-> Some([k \in 1..Len(column_name.names) |->
                                       IntOf(column_name.names[k])]),
                set_days |-> None,
                n_time_points |-> full_data.nrows,
                set_time |-> RangeSet(1, full_data.nrows),
                LMP |-> f.LMP,
                WEIGHTS |-> old.WEIGHTS,
                rng |-> old.rng,
                declared |-> old.declared] }
    ELSE IF n_clusters # None
    THEN \* single price signal, representative days
         LET ntp == IF hl # None THEN hl[1] ELSE DefaultTimePoints
             st == [err |-> "none", LMP |-> EmptyDict, WEIGHTS |-> EmptyDict]
         IN  { LET f == IF o.err # "none" THEN [st EXCEPT !.err = o.err]
                        ELSE Fill(o.lmp_data, o.weights, 1, n_clusters[1],
                                  ntp - 1, None, st)
               IN  [err |-> f.err,
                    assigned |-> {"set_years", "set_days", "_n_time_points",
                                  "set_time", "LMP", "WEIGHTS"},
                    set_years |-> None,
                    set_days |-> Some(RangeSet(1, n_clusters[1])),
                    n_time_points |-> ntp,
                    set_time |-> RangeSet(1, ntp - 1),
                    LMP |-> f.LMP,
                    WEIGHTS |-> f.WEIGHTS,
                    rng |-> o.rng,
                    declared |-> DeclaredAfterDays(old, was_defined)]
               : o \in cluster_lmp_data(full_data, n_clusters[1], h, old.rng) }
    ELSE IF RefusesValue(old)
    THEN \* single price signal, full year, on a model loaded with days before
         {[old EXCEPT !.err = "DeveloperError",
                      !.assigned = {"set_years"},
                      !.set_years = None]}
    ELSE \* single price signal, full year
         LET name == column_name.names[1]
             found == name \in ColumnSet
         IN  { [err |-> IF found THEN "none" ELSE "KeyError",
                assigned |-> {"set_years", "set_days", "_n_time_points", "set_time"}
                             \cup (IF found THEN {"LMP"} ELSE {}),
                set_years |-> None,
                set_days |-> None,
                n_time_points |-> full_data.nrows,
                set_time |-> RangeSet(1, full_data.nrows),
                LMP |-> IF found
                        THEN [k \in {<<t>> : t \in 1..full_data.nrows} |->
                                 RawSample(Series(full_data, name).values, k[1])]
                        ELSE old.LMP,
                WEIGHTS |-> old.WEIGHTS,
                rng |-> old.rng,
                declared |-> old.declared] }

-----------------------------------------------------------------------------
(* The multi-period framework: MultiPeriodModel(n_time_points, set_days,    *)
(* set_years, use_stochastic_build=True, **kwargs)                          *)

\* what **kwargs makes of every period: the number of operation-kind and of
\* design-kind sub-models attached to it, and whether the period block itself
\* exposes opt_power
Flowsheet == [operation : 0..2, design : 0..2, opt_power : BOOLEAN]

\* how the framework identifies a period: by the indices that were given, or
\* always by (time, day, year) with 1 for a missing day or year
KeyLayouts == {"given", "full"}

\* the period identifiers, years outermost and time innermost
PeriodKeys(ntp, days, years, layout) ==
    LET nD == IF days = None THEN 1 ELSE Cardinality(days[1])
        nY == IF years = None THEN 1 ELSE Len(years[1])
        T(i) == ((i - 1) % ntp) + 1
        D(i) == (((i - 1) \div ntp) % nD) + 1
        Y(i) == IF years = None THEN 1
                ELSE years[1][((i - 1) \div (ntp * nD)) + 1]
    IN  [i \in 1..(ntp * nD * nY) |->
            IF layout = "full" THEN <<T(i), D(i), Y(i)>>
            ELSE IF days # None /\ years # None THEN <<T(i), D(i), Y(i)>>
            ELSE IF days # None THEN <<T(i), D(i)>>
            ELSE IF years # None THEN <<T(i), Y(i)>>
            ELSE <<T(i)>>]

\* the object the framework gives back: the ordered period collection, what
\* every period holds, the expressions the builder steps defined on every
\* period (and which of them they defined again, replacing the earlier one),
\* what the hourly cashflow expressions of a period are made of, and the
\* constraints the builder steps attached
MultiPeriodModel(ntp, days, years, flowsheet, layout) ==
    [period |-> PeriodKeys(ntp, days, years, layout),
     flowsheet |-> flowsheet,
     exprs |-> {},
     redefined |-> {},
     hourly |-> EmptyDict,
     cons |-> EmptyDict]

-----------------------------------------------------------------------------
(* The builder steps *)

\* RangeSet(a, b) raises ValueError when b < a - 1 (b = a - 1 is the empty set)
RangeSetRefuses(a, b) == b < a - 1

Component(kind, expr, sense, index) ==
    [kind |-> kind, expr |-> expr, sense |-> sense, index |-> index]

Built(mp, comps, e) == [err |-> e, mp_model |-> mp, components |-> comps]

\* list[i] in Python on a list of n items, as a position counted from 1:
\* a negative i counts from the end, and 0 stands for IndexError
ListAt(n, i) ==
    IF i >= 0 /\ i < n THEN i + 1
    ELSE IF i < 0 /\ i >= -n THEN n + i + 1
    ELSE 0

\* coef * period[range_time_periods[i]].quantity, as a term of an expression
Term(coef, quantity, i) == <<coef, quantity, i>>

RECURSIVE SumCoef(_, _, _)
SumCoef(terms, atom, k) ==
    IF k > Len(terms) THEN 0
    ELSE (IF <<terms[k][2], terms[k][3]>> = atom THEN terms[k][1] ELSE 0)
         + SumCoef(terms, atom, k + 1)

\* the linear expression a list of terms adds up to: the coefficient of every
\* <<quantity, period>> that has one other than 0
LinOf(terms) ==
    LET atoms == {<<terms[k][2], terms[k][3]>> : k \in DOMAIN terms}
    IN  [a \in {b \in atoms : SumCoef(terms, b, 1) # 0} |-> SumCoef(terms, a, 1)]

\* the terms with each list lookup range_time_periods[i] made: the period is
\* named by its position in the period list, counted from 1
Looked(terms, n) ==
    [k \in DOMAIN terms |-> Term(terms[k][1], terms[k][2], ListAt(n, terms[k][3]))]

\* the constraint lhs <= const + rhs that a rule returns
Body(r, n) ==
    [lhs |-> LinOf(Looked(r.lhs, n)), rel |-> "<=",
     const |-> r.const, rhs |-> LinOf(Looked(r.rhs, n))]

\* Constraint(index, rule=...) on the multi-period model: the component is
\* attached, then the rule is called for every index; refs[t] is the set of
\* list lookups the rule of index t makes, needs_opt_power whether it reads
\* opt_power of a period, rule[t] what the rule returns for t
Constrain(mp, name, index, n, refs, needs_opt_power, rule) ==
    LET bad == \E t \in index : \E i \in refs[t] : ListAt(n, i) = 0
        e == IF bad THEN "IndexError"
             ELSE IF index # {} /\ needs_opt_power /\ ~mp.flowsheet.opt_power
             THEN "AttributeError"
             ELSE "none"
    IN  [err |-> e,
         mp_model |->
             [mp EXCEPT !.cons =
                 Put(@, name,
                     [index |-> index,
                      constructed |-> e = "none",
                      refs |-> IF e = "none"
                               THEN [t \in index |->
                                        {ListAt(n, i) : i \in refs[t]}]
                               ELSE <<>>,
                      body |-> IF e = "none"
                               THEN [t \in index |-> Body(rule[t], n)]
                               ELSE <<>>])]]

\* for p in period: ... period[p].op_mode = Expression(...);
\*                      period[p].startup = Expression(...)
DefineModes(mp) ==
    IF Len(mp.period) = 0 THEN mp
    ELSE [mp EXCEPT !.exprs = @ \cup {"op_mode", "startup"},
                    !.redefined = @ \cup ({"op_mode", "startup"} \cap mp.exprs)]

\* the arguments of add_ramping_constraints that are not given
RampDefaults ==
    [startup_limit |-> 100, shutdown_limit |-> 100, ramp_up_limit |-> 110,
     ramp_down_limit |-> 110, minimum_opt_limit |-> 0]

\* (mutation of ramp_up_con_rule: the terms of minimum_opt_limit are left out)
ramp_up_con_rule_plain(a, t) ==
    [lhs |-> <<Term(1, "opt_power", t), Term(-1, "opt_power", t - 1)>>,
     const |-> 0,
     rhs |-> <<Term(a.startup_limit, "startup", t),
               Term(a.ramp_up_limit, "op_mode", t)>>]

ramp_up_con_rule(a, t) ==
    [lhs |-> <<Term(1, "opt_power", t), Term(-1, "opt_power", t - 1)>>,
     const |-> 0,
     rhs |-> <<Term(a.startup_limit, "startup", t),
               Term(-a.minimum_opt_limit, "startup", t - 1),
               Term(a.ramp_up_limit, "op_mode", t),
               Term(a.minimum_opt_limit, "op_mode", t),
               Term(-a.minimum_opt_limit, "op_mode", t - 1)>>]

ramp_down_con_rule(a, t) ==
    [lhs |-> <<Term(1, "opt_power", t - 1), Term(-1, "opt_power", t)>>,
     const |-> 0,
     rhs |-> <<Term(a.shutdown_limit, "startup", t - 1),
               Term(a.shutdown_limit, "op_mode", t - 1),
               Term(-a.shutdown_limit, "op_mode", t),
               Term(-a.minimum_opt_limit, "startup", t),
               Term(a.ramp_down_limit, "op_mode", t)>>]

add_ramping_constraints(mp, comps, a) ==
    IF mp = NoModel THEN Built(mp, comps, "AttributeError")
    ELSE
    LET P == Len(mp.period)
        ramp_up_down_range == RangeSet(2, P - 1)
        comps1 == Put(comps, "ramp_up_down_range",
                      Component("RangeSet", "", "", ramp_up_down_range))
        fresh == "op_mode" \notin mp.exprs
        n == IF fresh THEN P ELSE 0
        mp1 == IF fresh THEN DefineModes(mp) ELSE mp
        refs == [t \in ramp_up_down_range |-> {t, t - 1}]
        up == Constrain(mp1, "ramp_up_con", ramp_up_down_range, n, refs, TRUE,
                        [t \in ramp_up_down_range |-> ramp_up_con_rule(a, t)])
        down == Constrain(up.mp_model, "ramp_down_con", ramp_up_down_range,
                          n, refs, TRUE,
                          [t \in ramp_up_down_range |-> ramp_down_con_rule(a, t)])
    IN  IF RangeSetRefuses(2, P - 1) THEN Built(mp, comps, "ValueError")
        ELSE IF \A i \in 1..P : mp.period[i] # <<1, 1>>
        THEN Built(mp, comps1, "KeyError")
        ELSE IF up.err # "none" THEN Built(up.mp_model, comps1, up.err)
        ELSE Built(down.mp_model, comps1, down.err)

\* (mutation of StartupWindow: the window starts one period earlier)
StartupWindowEarly(t, UT) == Range(t - UT, t)

\* range(t-UT+1, t)
StartupWindow(t, UT) == Range(t - UT + 1, t)

\* (mutation of ShutdownWindow: the window ends before t)
ShutdownWindowShort(t, DT) == Range(t - DT, t)

\* range(t - DT, t + 1)
ShutdownWindow(t, DT) == Range(t - DT, t + 1)

\* sum(period[range_time_periods[i]].startup for i in window)
SumStartup(window) == [k \in DOMAIN window |-> Term(1, "startup", window[k])]

startup_con1_rule(t, UT) ==
    [lhs |-> SumStartup(StartupWindow(t, UT)),
     const |-> 0,
     rhs |-> <<Term(1, "op_mode", t)>>]

stutdown_con1_rule(t, DT) ==
    [lhs |-> SumStartup(ShutdownWindow(t, DT)),
     const |-> 1,
     rhs |-> <<Term(-1, "op_mode", t - DT)>>]

add_startup_shutdown(mp, comps, UT, DT) ==
    IF mp = NoModel THEN Built(mp, comps, "AttributeError")
    ELSE
    LET P == Len(mp.period)
        SU == RangeSet(UT, P - 1)
        SD == RangeSet(DT, P - 1)
        comps1 == Put(comps, "range_time_periods_SU",
                      Component("RangeSet", "", "", SU))
        comps2 == Put(comps1, "range_time_periods_SD",
                      Component("RangeSet", "", "", SD))
        mp1 == DefineModes(mp)
        startup_refs ==
            [t \in SU |->
                {StartupWindow(t, UT)[k] : k \in DOMAIN StartupWindow(t, UT)}
                \cup {t}]
        shutdown_refs ==
            [t \in SD |->
                {ShutdownWindow(t, DT)[k] : k \in DOMAIN ShutdownWindow(t, DT)}
                \cup {t - DT}]
        su == Constrain(mp1, "startup_con1", SU, P, startup_refs, FALSE,
                        [t \in SU |-> startup_con1_rule(t, UT)])
        sd == Constrain(su.mp_model, "stutdown_con1", SD, P, shutdown_refs, FALSE,
                        [t \in SD |-> stutdown_con1_rule(t, DT)])
    IN  IF RangeSetRefuses(UT, P - 1) THEN Built(mp, comps, "ValueError")
        ELSE IF RangeSetRefuses(DT, P - 1) THEN Built(mp, comps1, "ValueError")
        ELSE IF su.err # "none" THEN Built(su.mp_model, comps2, su.err)
        ELSE Built(sd.mp_model, comps2, sd.err)

HourlyNames ==
    {"non_fuel_vom", "fuel_cost", "elec_revenue", "carbon_price", "net_cash_inflow"}

\* period[p].component_data_objects(Block): the blocks below a period, each
\* <<kind, number>>; the flowsheet block itself is of neither kind
PeriodBlocks(flowsheet) ==
    {<<"other", 1>>}
    \cup {<<"operation", i>> : i \in 1..flowsheet.operation}
    \cup {<<"design", i>> : i \in 1..flowsheet.design}

\* (mutation of IsOperationModel: every block counts)
IsAnyBlock(blk) == TRUE

\* isinstance(blk, OperationModelData)
IsOperationModel(blk) == blk[1] = "operation"

\* quantity = 0; for blk in ...: if isinstance(...): quantity += blk.quantity
\* gives the sum of blk.quantity over these blocks
HourlySum(flowsheet) == {blk \in PeriodBlocks(flowsheet) : IsOperationModel(blk)}

\* the five expressions of a period: the four sums, and net_cash_inflow with
\* the expressions it adds and the ones it subtracts
HourlyExpressions(flowsheet) ==
    [name \in HourlyNames |->
        IF name = "net_cash_inflow"
        THEN [plus |-> {"elec_revenue"},
              minus |-> {"non_fuel_vom", "fuel_cost", "carbon_price"}]
        ELSE [plus |-> {<<blk, name>> : blk \in HourlySum(flowsheet)},
              minus |-> {}]]

build_hourly_cashflows(mp, comps) ==
    IF mp = NoModel THEN Built(mp, comps, "AttributeError")
    ELSE IF Len(mp.period) = 0 THEN Built(mp, comps, "none")
    ELSE Built([mp EXCEPT !.exprs = @ \cup HourlyNames,
                          !.redefined = @ \cup (HourlyNames \cap mp.exprs),
                          !.hourly = HourlyExpressions(mp.flowsheet)],
               comps, "none")

\* (mutation of MissingNetCashInflow: only a missing multi-period model counts)
MissingOnlyModel(mp) == mp = NoModel

\* sum(self.mp_model.period[p].net_cash_inflow for p in self.mp_model.period)
\* raises AttributeError without a multi-period model, and at the first
\* period that has no net_cash_inflow
MissingNetCashInflow(mp) ==
    \/ mp = NoModel
    \/ Len(mp.period) >= 1 /\ "net_cash_inflow" \notin mp.exprs

\* (mutation of ObjectiveExpr: every objective is the NPV)
ObjectiveAlwaysNPV(objective) ==
    IF objective \in {"NPV", "Annualized NPV", "Net Profit"}
    THEN Some("NPV") ELSE None

\* the if / elif chain on objective: the expression that is maximised
ObjectiveExpr(objective) ==
    IF objective = "NPV" THEN Some("NPV")
    ELSE IF objective = "Annualized NPV" THEN Some("Annualized_NPV")
    ELSE IF objective = "Net Profit" THEN Some("NET_PROFIT")
    ELSE None

\* self.name = component, for each pair of the list in order
RECURSIVE Attach(_, _, _)
Attach(comps, list, i) ==
    IF i > Len(list) THEN comps
    ELSE Attach(Put(comps, list[i][1], list[i][2]), list, i + 1)

\* (mutation of IsDesignModel: every block of a period counts)
IsPeriodBlock(blk) == TRUE

\* isinstance(blk, DesignModelData)
IsDesignModel(blk) == blk[1] = "design"

\* self.component_data_objects(Block) goes down into every block of the
\* model: the design-kind blocks are those of every period, <<p, blk>>
DesignBlocks(mp) ==
    IF mp = NoModel THEN {}
    ELSE {<<p, blk>> : p \in 1..Len(mp.period),
                       blk \in {b \in PeriodBlocks(mp.flowsheet) : IsDesignModel(b)}}

\* a constraint on a sum, with the terms of the sum
Summed(component, terms) == [terms |-> terms] @@ component

build_cashflows(mp, comps, objective) ==
    LET first ==
            << <<"CAPEX", Component("Var", "NonNegativeReals", "", {})>>,
               <<"capex_calculation",
                 Summed(Component("Constraint", "CAPEX == sum(capex)", "", {}),
                        {<<b, "capex">> : b \in DesignBlocks(mp)})>>,
               <<"FOM", Component("Var", "NonNegativeReals", "", {})>>,
               <<"fom_calculation",
                 Summed(Component("Constraint", "FOM == sum(fom)", "", {}),
                        {<<b, "fom">> : b \in DesignBlocks(mp)})>>,
               <<"DEPRECIATION", Component("Var", "NonNegativeReals", "", {})>>,
               <<"dep_calculation",
                 Component("Constraint", "DEPRECIATION == CAPEX / lifetime", "", {})>>,
               <<"NET_CASH_INFLOW", Component("Var", "Reals", "", {})>> >>
        rest ==
            << <<"net_cash_inflow_calculation",
                 Summed(Component("Constraint",
                                  "NET_CASH_INFLOW == sum(net_cash_inflow)", "", {}),
                        {<<p, "net_cash_inflow">> : p \in 1..Len(mp.period)})>>,
               <<"CORP_TAX", Component("Var", "NonNegativeReals", "", {})>>,
               <<"corp_tax_calculation",
                 Component("Constraint",
                           "CORP_TAX >= corp_tax * (NET_CASH_INFLOW + other_revenue - other_costs - FOM - DEPRECIATION)",
                           "", {})>>,
               <<"NET_PROFIT", Component("Var", "Reals", "", {})>>,
               <<"net_profit_calculation",
                 Component("Constraint",
                           "NET_PROFIT == NET_CASH_INFLOW + other_revenue - other_costs - FOM - CORP_TAX",
                           "", {})>>,
               <<"NPV",
                 Component("Expression", "constant_cf_factor * NET_PROFIT - CAPEX",
                           "", {})>>,
               <<"Annualized_NPV",
                 Component("Expression",
                           "NET_PROFIT - (1 / constant_cf_factor) * CAPEX", "", {})>> >>
        comps1 == Attach(comps, first, 1)
        comps2 == Attach(comps1, rest, 1)
        expr == ObjectiveExpr(objective)
    IN  IF MissingNetCashInflow(mp) THEN Built(mp, comps1, "AttributeError")
        ELSE IF expr = None THEN Built(mp, comps2, "none")
        ELSE Built(mp,
                   Put(comps2, "obj", Component("Objective", expr[1], "maximize", {})),
                   "none")

-----------------------------------------------------------------------------
(* Unit costing (src/idaes/core/util/unit_costing.py).  A routine attaches   *)
(* its components to the costing block it is given; numbers are kept as the  *)
(* text the source writes them with.                                         *)

\* the costing block of the flowsheet and the costing block of a unit, empty
NoCosting == [flowsheet |-> EmptyDict, unit |-> EmptyDict]

\* self, the costing block of the unit being costed: a block with nothing on it
NewBlock == EmptyDict

\* self.name = Var(...) / Param(...) / Constraint(...) / Expression(...)
Add(blk, name, kind, value) == Put(blk, name, [kind |-> kind, value |-> value])

\* self.name = value on a mutable Param: the Param takes the value
SetParam(blk, name, value) == Put(blk, name, [kind |-> "Param", value |-> value])

Costed(e, blk) == [err |-> e, blk |-> blk]

\* the argument given, or the default of the signature
OrDefault(arg, default) == IF arg = None THEN default ELSE arg[1]

ce_index_dic ==
    [y \in {"2019", "2018", "2017", "2016", "2015", "2014", "2013", "2012",
            "2011", "2010"} |->
        CASE y = "2019" -> "680"   [] y = "2018" -> "671.1"
          [] y = "2017" -> "567.5" [] y = "2016" -> "541.7"
          [] y = "2015" -> "556.8" [] y = "2014" -> "576.1"
          [] y = "2013" -> "567.3" [] y = "2012" -> "584.6"
          [] y = "2011" -> "585.7" [] y = "2010" -> "550.8"]

global_costing_parameters(blk, year_arg) ==
    LET year == OrDefault(year_arg, "2018")
    IN  IF year \notin DOMAIN ce_index_dic THEN Costed("KeyError", blk)
        ELSE Costed("none", Add(blk, "CE_index", "Param", ce_index_dic[year]))

_make_vars(blk) ==
    Add(Add(Add(blk, "base_cost", "Var", "1e5"),
            "purchase_cost", "Var", "1e4"),
        "FM", "Param", "3")

\* the rule of a Constraint is called when the Constraint is assigned: the
\* component is on the block by then, built or not
Rule(blk, name, e) ==
    Costed(e, Add(blk, name, "Constraint",
                  IF e = "none" THEN "constructed" ELSE "unconstructed"))

c_fl == ("8ft" :> "1.25") @@ ("12ft" :> "1.12") @@ ("16ft" :> "1.05")
        @@ ("20ft" :> "1.00")
c_material == ("stain_steel" :> "3") @@ ("carbon_steel" :> "2")
alf1 == ("floating_head" :> "11.9052") @@ ("fixed_head" :> "11.2927")
        @@ ("U-tube" :> "11.3852") @@ ("Kettle_vap" :> "12.2052")

\* hx_costing(self, hx_type, FM, L_factor) on the costing block blk of a heat
\* exchanger whose property package has the units of unit; ce_index tells
\* whether the flowsheet costing block has CE_index
hx_costing(blk, ce_index, hx_type_arg, FM_arg, L_factor_arg, unit) ==
    LET hx_type == OrDefault(hx_type_arg, "U-tube")
        FM == OrDefault(FM_arg, "stain_steel")
        L_factor == OrDefault(L_factor_arg, "12ft")
        b1 == Add(Add(Add(_make_vars(blk), "FL", "Param", "1.12"),
                      "FP", "Var", "100"),
                  "hx_os", "Param", "1.1")
        b2 == SetParam(b1, "FL", c_fl[L_factor])
        b3 == SetParam(b2, "FM", c_material[FM])
        base == Rule(b3, "base_cost_eq",
                     IF hx_type \in DOMAIN alf1 THEN "none" ELSE "KeyError")
        pfac == Rule(base.blk, "p_factor_eq",
                     IF unit.pressure = "Pa" THEN "none" ELSE "NameError")
        cp == Rule(pfac.blk, "cp_cost_eq",
                   IF ce_index THEN "none" ELSE "AttributeError")
    IN  IF L_factor \notin DOMAIN c_fl THEN Costed("KeyError", b1)
        ELSE IF FM \notin DOMAIN c_material THEN Costed("KeyError", b2)
        ELSE IF unit.length = "ft" THEN Costed("AttributeError", b3)
        ELSE IF unit.length # "m" THEN Costed("Exception", b3)
        ELSE IF base.err # "none" THEN base
        ELSE IF unit.pressure = "psig" THEN Costed("AttributeError", base.blk)
        ELSE IF pfac.err # "none" THEN pfac
        ELSE cp

EnthalpyUnits == {"J/mol", "kJ/kmol", "cal/mol", "cal/kmol"}

material_factor_dic ==
    [m \in {"cast_iron", "ductile_iron", "cast_steel", "bronze", "stain_steel",
            "hastelloy_c", "monel", "nickel", "titanium"} |->
        CASE m = "cast_iron" -> "1.00"   [] m = "ductile_iron" -> "1.15"
          [] m = "cast_steel" -> "1.35"  [] m = "bronze" -> "1.90"
          [] m = "stain_steel" -> "2.00" [] m = "hastelloy_c" -> "2.95"
          [] m = "monel" -> "3.30"       [] m = "nickel" -> "3.50"
          [] m = "titanium" -> "9.70"]
material_factor_reciprocal_pumps ==
    ("ductile_iron" :> "1.00") @@ ("Ni_Al_Bronze" :> "1.15")
    @@ ("carbon_steel" :> "1.50") @@ ("stain_steel" :> "2.20")
pump_type_factor_dic ==
    ("1.1" :> "1.00") @@ ("1.2" :> "1.50") @@ ("1.3" :> "1.70")
    @@ ("1.4" :> "2.00") @@ ("2.1" :> "2.70") @@ ("2.2" :> "8.90")
pump_motor_type_dic ==
    ("open" :> "1") @@ ("enclosed" :> "1.4") @@ ("explosion_proof" :> "1.8")
FD_param ==
    ("electrical_motor" :> "1") @@ ("steam_turbine" :> "1.15")
    @@ ("gas_turbine" :> "1.25")
compressor_material_factor_dic ==
    ("carbon_steel" :> "1") @@ ("stain_steel" :> "2.5") @@ ("nickel_alloy" :> "5.0")
c_alf1 == ("centrifugal" :> "7.58") @@ ("reciprocating" :> "7.9661")
          @@ ("screw" :> "8.1238")

\* the pump branch of pressure_changer_costing, after _make_vars
PumpCosting(b0, ce_index, a, unit) ==
    LET b1 == Add(Add(Add(Add(Add(Add(b0,
                  "pump_head", "Var", "10"),
                  "size_factor", "Var", "10000"),
                  "motor_base_cost", "Var", "10000"),
                  "pump_purchase_cost", "Var", "100000"),
                  "motor_purchase_cost", "Var", "100000"),
                  "FT", "Param", "1")
        b2 == Add(Add(b1, "p_head_eq", "Constraint", "constructed"),
                  "s_factor_eq", "Constraint", "constructed")
        dic == IF a.pump_type = "reciprocating"
               THEN material_factor_reciprocal_pumps ELSE material_factor_dic
        b3 == SetParam(b2, "FM", dic[a.FM_mat])
        b4 == SetParam(b3, "FT",
                       IF a.pump_type = "centrifugal"
                       THEN pump_type_factor_dic[a.pump_type_factor] ELSE "1")
        b5 == Add(b4, "base_pump_cost_eq", "Constraint", "constructed")
        cpp == Rule(b5, "cp_pump_cost_eq",
                    IF ce_index THEN "none" ELSE "AttributeError")
        b6 == Add(Add(Add(Add(Add(cpp.blk,
                  "motor_FT", "Param", pump_motor_type_dic[a.pump_motor_type_factor]),
                  "power_consumption_hp", "Expression", "constructed"),
                  "base_motor_cost_eq", "Constraint", "constructed"),
                  "cp_motor_cost_eq", "Constraint", "constructed"),
                  "total_cost_eq", "Constraint", "constructed")
    IN  IF unit.enth_mol \notin EnthalpyUnits THEN Costed("Exception", b1)
        ELSE IF unit.pressure # "Pa" \/ unit.dens_mass # "kg/m^3"
        THEN Costed("Exception", b1)
        ELSE IF unit.flow_vol # "m^3/s" THEN Costed("Exception", b1)
        ELSE IF a.pump_type \notin {"centrifugal", "external_gear", "reciprocating"}
        THEN Costed("Exception", b2)
        ELSE IF a.FM_mat \notin DOMAIN dic THEN Costed("KeyError", b2)
        ELSE IF /\ a.pump_type = "centrifugal"
                /\ a.pump_type_factor \notin DOMAIN pump_type_factor_dic
        THEN Costed("KeyError", b3)
        ELSE IF cpp.err # "none" THEN cpp
        ELSE IF a.pump_motor_type_factor \notin DOMAIN pump_motor_type_dic
        THEN Costed("KeyError", cpp.blk)
        ELSE Costed("none", b6)

\* the fan / blower / compressor branch, after _make_vars
MoverCosting(b0, ce_index, a, unit) ==
    LET b1 == Add(b0, "FD", "Param", FD_param[a.driver_mover_type])
        b2 == SetParam(b1, "FM", compressor_material_factor_dic[a.FM_mat])
        cb == Rule(b2, "cb_cost_eq",
                   IF a.compressor_type \in DOMAIN c_alf1 THEN "none" ELSE "KeyError")
        cp == Rule(cb.blk, "cp_cost_eq",
                   IF ce_index THEN "none" ELSE "AttributeError")
    IN  IF unit.enth_mol \notin EnthalpyUnits THEN Costed("Exception", b0)
        ELSE IF a.mover_type \in {"fan", "blower"} THEN Costed("none", b0)
        ELSE IF a.mover_type # "compressor" THEN Costed("Exception", b0)
        ELSE IF a.driver_mover_type \notin DOMAIN FD_param
        THEN Costed("KeyError", b0)
        ELSE IF a.FM_mat \notin DOMAIN compressor_material_factor_dic
        THEN Costed("KeyError", b1)
        ELSE IF cb.err # "none" THEN cb
        ELSE cp

\* the arguments of pressure_changer_costing that are not given
PressureChangerDefaults ==
    [FM_mat |-> "stain_steel", mover_type |-> "compressor",
     compressor_type |-> "centrifugal", driver_mover_type |-> "electrical_motor",
     pump_type |-> "centrifugal", pump_type_factor |-> "1.4",
     pump_motor_type_factor |-> "open"]

\* pressure_changer_costing(self, **a) on the costing block blk of a pressure
\* changer with the configuration and units of unit
pressure_changer_costing(blk, ce_index, a, unit) ==
    LET b0 == _make_vars(blk)
    IN  IF ~unit.compressor
        THEN \* a turbine
             IF unit.enth_mol \notin EnthalpyUnits THEN Costed("Exception", b0)
             ELSE Costed("none", Add(b0, "cp_cost_eq", "Constraint", "constructed"))
        ELSE IF unit.thermodynamic_assumption = "pump"
        THEN PumpCosting(b0, ce_index, a, unit)
        ELSE IF unit.thermodynamic_assumption = "isothermal"
        THEN Costed("Exception", b0)
        ELSE MoverCosting(b0, ce_index, a, unit)

-----------------------------------------------------------------------------
(* Smooth vapor-liquid equilibrium (phase_equil/smooth_VLE.py)             *)
(* The parameter block of the property package names the phases, gives the *)
(* kind of each, lists the components and holds the set of (phase,         *)
(* component) pairs that exist. The state block is built by calling        *)
(* phase_equil once for each of its phase pairs; an exception ends the      *)
(* build.                                                                   *)

PhaseNames == {"Liq", "Vap", "Sol"}
PhaseKind == [Liq |-> "liquid", Vap |-> "vapor", Sol |-> "solid"]
component_list == <<"h2o", "co2">>

\* pparams.get_phase(p).is_liquid_phase() / .is_vapor_phase()
is_liquid_phase(p) == PhaseKind[p] = "liquid"
is_vapor_phase(p) == PhaseKind[p] = "vapor"

\* no parameter block yet; a state block with nothing added to it
NoParams == <<>>
NoStateBlock == [components |-> EmptyDict, handled |-> {}]

\* the parameter block whose _phase_component_set is pcs
ParameterBlock(pcs) ==
    [component_list |-> component_list, _phase_component_set |-> pcs]

\* the first or second element of the pair decides l_phase and v_phase
PhaseOf(found, p) ==
    IF is_liquid_phase(p) THEN [found EXCEPT !.l_phase = Some(p)]
    ELSE IF is_vapor_phase(p) THEN [found EXCEPT !.v_phase = Some(p)]
    ELSE found

_valid_VL_component_list(pparams, pp) ==
    LET found == PhaseOf(PhaseOf([l_phase |-> None, v_phase |-> None], pp[1]), pp[2])
        pcs == pparams._phase_component_set
        is_pair == found.l_phase # None /\ found.v_phase # None
        InL(j) == <<found.l_phase[1], j>> \in pcs
        InV(j) == <<found.v_phase[1], j>> \in pcs
        Both(j) == InL(j) /\ InV(j)
        OnlyL(j) == ~Both(j) /\ InL(j)
        OnlyV(j) == ~Both(j) /\ ~InL(j) /\ InV(j)
    IN  [l_phase |-> found.l_phase, v_phase |-> found.v_phase,
         vl_comps |-> IF is_pair THEN SelectSeq(pparams.component_list, Both) ELSE <<>>,
         l_only_comps |-> IF is_pair THEN SelectSeq(pparams.component_list, OnlyL) ELSE <<>>,
         v_only_comps |-> IF is_pair THEN SelectSeq(pparams.component_list, OnlyV) ELSE <<>>]

\* "_" + phase_pair[0] + "_" + phase_pair[1]
Suffix(pp) == "_" \o pp[1] \o "_" \o pp[2]

\* (mutation of NeedsT1: the intermediate temperature is tied to the
\* liquid-only components)
NeedsT1Liquid(v) == v.l_only_comps = <<>>

\* the intermediate temperature is introduced when no component is vapor-only
NeedsT1(v) == v.v_only_comps = <<>>

\* the first branch: _t1, eps_1 and the _t1 constraint, or nothing
WithT1(b, pp, v) ==
    IF NeedsT1(v)
    THEN LET suffix == Suffix(pp)
             b1 == Add(b, "_t1" \o suffix, "Var", "temperature.value")
             b2 == Add(b1, "eps_1" \o suffix, "Param", "0.01")
         IN  Add(b2, "_t1_constraint" \o suffix, "Constraint",
                 [lhs |-> "_t1" \o suffix,
                  rhs |-> <<"smooth_max", "temperature",
                            <<"temperature_bubble", pp>>, "eps_1" \o suffix>>])
    ELSE b

\* the temperature the second branch starts from
T1Of(pp, v) == IF NeedsT1(v) THEN "_t1" \o Suffix(pp) ELSE "temperature"

phase_equil(b, pparams, pp) ==
    LET suffix == Suffix(pp)
        v == _valid_VL_component_list(pparams, pp)
    IN  IF v.l_phase = None \/ v.v_phase = None
        THEN [err |-> "ConfigurationError", b |-> b]
        ELSE
        LET b1 == WithT1(b, pp, v)
            _t1 == T1Of(pp, v)
            b2 == IF v.l_only_comps = <<>>
                  THEN Add(b1, "eps_2" \o suffix, "Param", "0.0005")
                  ELSE b1
            rule_teq ==
                IF v.l_only_comps = <<>>
                THEN [lhs |-> <<"_teq", pp>>,
                      rhs |-> <<"smooth_min", _t1, <<"temperature_dew", pp>>,
                                "eps_2" \o suffix>>]
                ELSE IF v.v_only_comps = <<>>
                THEN [lhs |-> <<"_teq", pp>>, rhs |-> _t1]
                ELSE [lhs |-> <<"_teq", pp>>, rhs |-> "temperature"]
        IN  [err |-> "none",
             b |-> Add(b2, "_teq_constraint" \o suffix, "Constraint", rule_teq)]

-----------------------------------------------------------------------------
(* Init, the constructor *)

Seeds == {20, 7}
Horizons == {-1, 0, 1, 2, 24, 25}

Init ==
    /\ seed \in Seeds
    /\ horizon_length \in Horizons
    /\ defined = {}
    /\ set_years = None
    /\ set_days = None
    /\ n_time_points = 0
    /\ set_time = {}
    /\ LMP = <<>>
    /\ WEIGHTS = <<>>
    /\ mp_model = NoModel
    /\ components = NoComponents
    /\ invoked = {}
    /\ costing = NoCosting
    /\ rng \in RngStates
    /\ declared = {}
    /\ params = NoParams
    /\ state_block = NoStateBlock
    /\ call = [op |-> "__init__"]
    /\ ret = None
    /\ err = "none"

-----------------------------------------------------------------------------
(* Setters *)

SetSeed(value) ==
    /\ seed' = value
    /\ call' = [op |-> "seed.setter", value |-> value]
    /\ ret' = None
    /\ err' = "none"
    /\ UNCHANGED <<horizon_length, defined, dataVars, buildVars, costing, rng, vleVars>>

SetHorizonLength(value) ==
    /\ call' = [op |-> "horizon_length.setter", value |-> value]
    /\ ret' = None
    /\ IF value <= 0
       THEN err' = "ValueError" /\ UNCHANGED horizon_length
       ELSE err' = "none" /\ horizon_length' = value
    /\ UNCHANGED <<seed, defined, dataVars, buildVars, costing, rng, vleVars>>

ReconfigureRawData(L) ==
    LET r == reconfigure_raw_data(Sheet(L), horizon_length)
    IN  /\ call' = [op |-> "reconfigure_raw_data", nrows |-> L]
        /\ err' = r.err
        /\ ret' = IF r.err = "none"
                  THEN [daily_data |-> r.daily_data, scenarios |-> r.scenarios]
                  ELSE None
        /\ UNCHANGED <<seed, horizon_length, defined, dataVars, buildVars, costing, rng, vleVars>>

\* daily_data is the table reconfigure_raw_data gives for L rows and horizon h
GetOptimalNClusters(L, h, kmin, kmax) ==
    LET daily_data == reconfigure_raw_data(Sheet(L), h).daily_data
    IN  \E o \in get_optimal_n_clusters(daily_data, kmin, kmax, seed, rng) :
            /\ call' = [op |-> "get_optimal_n_clusters",
                        n_days |-> Len(daily_data.cols),
                        kmin |-> kmin, kmax |-> kmax]
            /\ err' = o.err
            /\ ret' = o.ret
            /\ rng' = o.rng
            /\ UNCHANGED <<seed, horizon_length, defined, dataVars, buildVars, costing, vleVars>>

ClusterLmpData(L, n_clusters) ==
    \E o \in cluster_lmp_data(Sheet(L), n_clusters, horizon_length, rng) :
        /\ call' = [op |-> "cluster_lmp_data", nrows |-> L,
                    n_clusters |-> n_clusters]
        /\ err' = o.err
        /\ ret' = o
        /\ rng' = o.rng
        /\ UNCHANGED <<seed, horizon_length, defined, dataVars, buildVars, costing, vleVars>>

\* the attributes of the model object that append_lmp_data writes
Attributes ==
    [err |-> "none", assigned |-> {}, set_years |-> set_years,
     set_days |-> set_days, n_time_points |-> n_time_points,
     set_time |-> set_time, LMP |-> LMP, WEIGHTS |-> WEIGHTS, rng |-> rng,
     declared |-> declared]

AppendLmpData(L, column_name, n_clusters, hl) ==
    \E o \in append_lmp_data(Sheet(L), column_name, n_clusters, hl,
                             horizon_length, Attributes,
                             "set_days" \in defined) :
        /\ call' = [op |-> "append_lmp_data", nrows |-> L,
                    column_name |-> column_name, n_clusters |-> n_clusters,
                    horizon_length |-> hl]
        /\ err' = o.err
        /\ ret' = None
        /\ defined' = defined \cup o.assigned
        /\ set_years' = o.set_years
        /\ set_days' = o.set_days
        /\ n_time_points' = o.n_time_points
        /\ set_time' = o.set_time
        /\ LMP' = o.LMP
        /\ WEIGHTS' = o.WEIGHTS
        /\ invoked' = invoked \cup {"append_lmp_data"}
        /\ rng' = o.rng
        /\ declared' = o.declared
        /\ UNCHANGED <<seed, horizon_length, mp_model, components, costing, vleVars>>

Invoke(op) == invoked' = invoked \cup ({op} \cap
                  {"append_lmp_data", "build_multiperiod_model", "build_hourly_cashflows"})

BuildMultiperiodModel(flowsheet, layout) ==
    LET missing == {"_n_time_points", "set_days", "set_years"} \ defined
    IN  /\ call' = [op |-> "build_multiperiod_model", flowsheet |-> flowsheet,
                    layout |-> layout]
        /\ ret' = None
        /\ Invoke("build_multiperiod_model")
        /\ IF missing # {}
           THEN err' = "AttributeError" /\ UNCHANGED mp_model
           ELSE /\ err' = "none"
                /\ mp_model' = MultiPeriodModel(n_time_points, set_days, set_years,
                                                flowsheet, layout)
        /\ UNCHANGED <<seed, horizon_length, defined, dataVars, components, costing, rng, vleVars>>

Step(op, args, b) ==
    /\ call' = [op |-> op, args |-> args]
    /\ ret' = None
    /\ err' = b.err
    /\ mp_model' = b.mp_model
    /\ components' = b.components
    /\ Invoke(op)
    /\ UNCHANGED <<seed, horizon_length, defined, dataVars, costing, rng, vleVars>>

AddRampingConstraints(a) ==
    Step("add_ramping_constraints", <<a>>,
         add_ramping_constraints(mp_model, components, a))

AddStartupShutdown(UT, DT) ==
    Step("add_startup_shutdown", <<UT, DT>>,
         add_startup_shutdown(mp_model, components, UT, DT))

BuildHourlyCashflows ==
    Step("build_hourly_cashflows", <<>>, build_hourly_cashflows(mp_model, components))

BuildCashflows(objective) ==
    Step("build_cashflows", <<objective>>,
         build_cashflows(mp_model, components, objective))


CostingStep(op, args, unit, fs, blk, e) ==
    /\ call' = [op |-> op, args |-> args, unit |-> unit]
    /\ ret' = None
    /\ err' = e
    /\ costing' = [flowsheet |-> fs, unit |-> blk]
    /\ UNCHANGED <<seed, horizon_length, defined, dataVars, buildVars, rng, vleVars>>

GlobalCostingParameters(year) ==
    LET c == global_costing_parameters(costing.flowsheet, year)
    IN  CostingStep("global_costing_parameters", <<year>>, <<>>, c.blk,
                    costing.unit, c.err)

HxCosting(hx_type, FM, L_factor, unit) ==
    LET c == hx_costing(NewBlock, "CE_index" \in DOMAIN costing.flowsheet,
                        hx_type, FM, L_factor, unit)
    IN  CostingStep("hx_costing", <<hx_type, FM, L_factor>>, unit,
                    costing.flowsheet, c.blk, c.err)

PressureChangerCosting(a, unit) ==
    LET c == pressure_changer_costing(NewBlock,
                                      "CE_index" \in DOMAIN costing.flowsheet,
                                      a, unit)
    IN  CostingStep("pressure_changer_costing", a, unit,
                    costing.flowsheet, c.blk, c.err)


\* <<kmin, kmax>> as passed by the caller
KArgs == {<<None, None>>, <<None, Some(4)>>, <<Some(2), Some(4)>>, <<Some(2), Some(5)>>}
ClusterArgs == {1, 2}
\* <<rows, horizon>> of the daily tables handed to get_optimal_n_clusters
DailyInputs == {<<LongRows, 1>>, <<SmallRows, 1>>, <<0, 1>>}

(* The operations that leave the model object as it is *)
NextPure ==
    \/ \E v \in Seeds : SetSeed(v)
    \/ \E v \in Horizons : SetHorizonLength(v)
    \/ \E L \in SheetLens : ReconfigureRawData(L)
    \/ \E d \in DailyInputs, k \in KArgs :
          GetOptimalNClusters(d[1], d[2], k[1], k[2])
    \/ \E L \in SheetLens, n \in ClusterArgs : ClusterLmpData(L, n)

SpecPure == Init /\ [][NextPure]_vars

(* Price loading *)
One(name) == [list |-> FALSE, names |-> <<name>>]
Many(names) == [list |-> TRUE, names |-> names]

Load(L, column_name, n_clusters, hl) ==
    [nrows |-> L, column_name |-> column_name, n_clusters |-> n_clusters,
     horizon_length |-> hl]

\* the calls of append_lmp_data that are made
LoadInputs ==
    \* single price signal, full year
    {Load(L, One("price"), None, None) : L \in {SmallRows, LongRows}}
    \cup {Load(SmallRows, One("Price"), None, None)}
    \* multiple years, full year
    \cup {Load(SmallRows, Many(names), None, None) :
            names \in {<<"2022", "2025">>, <<"2022", "2030">>, <<"price">>}}
    \* single price signal, representative days
    \cup {Load(LongRows, One("price"), Some(n), hl) :
            n \in {1, 2}, hl \in {None, Some(3), Some(26)}}
    \cup {Load(LongRows, One("2022"), Some(1), None),
          Load(SmallRows, One("price"), Some(1), None)}
    \* multiple years, representative days
    \cup {Load(LongRows, Many(<<"2022", "2025">>), Some(2), hl) :
            hl \in {None, Some(3)}}
    \cup {Load(LongRows, Many(<<"price">>), Some(2), None)}

LoadHorizons == {2, 24, 25}

InitLoad == Init /\ seed = 20 /\ horizon_length \in LoadHorizons

NextLoad ==
    \E i \in LoadInputs :
        AppendLmpData(i.nrows, i.column_name, i.n_clusters, i.horizon_length)

SpecLoad == InitLoad /\ [][NextLoad]_vars

(* Building *)
\* the prices are loaded before anything is built
BuildLoads ==
    {Load(L, One("price"), None, None) : L \in {0, SmallRows}}
    \cup {Load(SmallRows, Many(<<"2022", "2025">>), None, None),
          Load(LongRows, One("price"), Some(1), Some(4))}

Builds ==
    {<<[operation |-> 1, design |-> 1, opt_power |-> TRUE], "given">>,
     <<[operation |-> 2, design |-> 0, opt_power |-> FALSE], "given">>,
     <<[operation |-> 1, design |-> 1, opt_power |-> TRUE], "full">>}

StartupArgs == {<<4, 4>>, <<1, 5>>}
RampArgs ==
    {RampDefaults,
     [startup_limit |-> 50, shutdown_limit |-> 60, ramp_up_limit |-> 70,
      ramp_down_limit |-> 80, minimum_opt_limit |-> 20]}
Objectives == {"NPV", "Annualized NPV", "Net Profit", "Revenue"}

InitBuild == Init /\ seed = 20 /\ horizon_length = 24 /\ rng = 0

NextBuild ==
    \/ /\ mp_model = NoModel
       /\ components = NoComponents
       /\ \E i \in BuildLoads :
             AppendLmpData(i.nrows, i.column_name, i.n_clusters, i.horizon_length)
    \/ \E b \in Builds : BuildMultiperiodModel(b[1], b[2])
    \/ \E a \in RampArgs : AddRampingConstraints(a)
    \/ \E a \in StartupArgs : AddStartupShutdown(a[1], a[2])
    \/ BuildHourlyCashflows
    \/ \E objective \in Objectives : BuildCashflows(objective)

SpecBuild == InitBuild /\ [][NextBuild]_vars

(* Costing *)
Years == {None, Some("2018"), Some("2019"), Some("2020")}

HxUnits == {[length |-> "m", pressure |-> "Pa"],
            [length |-> "ft", pressure |-> "Pa"],
            [length |-> "m", pressure |-> "psig"],
            [length |-> "cm", pressure |-> "bar"],
            [length |-> "m", pressure |-> "bar"]}
HxTypes == {None, Some("floating_head"), Some("fixed_head"), Some("U-tube"),
            Some("Kettle_vap"), Some("plate")}
HxMaterials == {None, Some("stain_steel"), Some("carb_steel"), Some("carbon_steel")}
HxLengths == {None, Some("8ft"), Some("12ft"), Some("16ft"), Some("20ft"),
              Some("10ft")}

\* the calls of hx_costing: every option on the usual units, the defaults on
\* the other units
HxInputs ==
    {<<t, m, l, [length |-> "m", pressure |-> "Pa"]>> :
        t \in HxTypes, m \in HxMaterials, l \in HxLengths}
    \cup {<<None, None, None, u>> : u \in HxUnits}

PumpUnit ==
    [compressor |-> TRUE, thermodynamic_assumption |-> "pump",
     enth_mol |-> "J/mol", pressure |-> "Pa", dens_mass |-> "kg/m^3",
     flow_vol |-> "m^3/s"]
CompressorUnit == [PumpUnit EXCEPT !.thermodynamic_assumption = "isentropic"]

\* the calls of pressure_changer_costing: one argument away from the defaults
PressureChangerInputs ==
    LET d == PressureChangerDefaults
    IN  {<<a, PumpUnit>> :
            a \in {d}
               \cup {[d EXCEPT !.FM_mat = m] : m \in {"titanium", "nickel_alloy", "wood"}}
               \cup {[d EXCEPT !.pump_type = t] :
                       t \in {"external_gear", "reciprocating", "rotary"}}
               \cup {[d EXCEPT !.pump_type_factor = "1.5"],
                     [d EXCEPT !.pump_motor_type_factor = "sealed"],
                     [d EXCEPT !.pump_type = "reciprocating", !.FM_mat = "titanium"]}}
        \cup {<<a, CompressorUnit>> :
            a \in {d}
               \cup {[d EXCEPT !.FM_mat = m] : m \in {"nickel_alloy", "wood"}}
               \cup {[d EXCEPT !.driver_mover_type = t] :
                       t \in {"steam_turbine", "diesel"}}
               \cup {[d EXCEPT !.mover_type = t] : t \in {"fan", "pump"}}
               \cup {[d EXCEPT !.compressor_type = "axial"]}}
        \cup {<<[d EXCEPT !.FM_mat = "wood"], u>> :
            u \in {[PumpUnit EXCEPT !.compressor = FALSE],
                   [PumpUnit EXCEPT !.compressor = FALSE, !.enth_mol = "BTU/lb"],
                   [PumpUnit EXCEPT !.thermodynamic_assumption = "isothermal"],
                   [PumpUnit EXCEPT !.flow_vol = "gpm"],
                   [PumpUnit EXCEPT !.pressure = "bar"],
                   [CompressorUnit EXCEPT !.enth_mol = "BTU/lb"]}}

NextCosting ==
    \/ \E year \in Years : GlobalCostingParameters(year)
    \/ \E i \in HxInputs : HxCosting(i[1], i[2], i[3], i[4])
    \/ \E i \in PressureChangerInputs : PressureChangerCosting(i[1], i[2])

SpecCosting == InitBuild /\ [][NextCosting]_vars

(* Building a state block of a property package *)
\* the parameter block is built from the package's configuration
BuildParameterBlock(pcs) ==
    /\ params = NoParams
    /\ params' = ParameterBlock(pcs)
    /\ call' = [op |-> "params.build"]
    /\ ret' = None
    /\ err' = "none"
    /\ UNCHANGED <<seed, horizon_length, defined, dataVars, buildVars, costing,
                   rng, state_block>>

\* StateBlock.build calls phase_equil for each phase pair in turn, until one
\* call raises
PhaseEquil(pp) ==
    /\ params # NoParams
    /\ pp \notin state_block.handled
    /\ ~(call.op = "phase_equil" /\ err # "none")
    /\ LET r == phase_equil(state_block.components, params, pp)
       IN  /\ state_block' = [components |-> r.b,
                              handled |-> state_block.handled \cup {pp}]
           /\ err' = r.err
    /\ call' = [op |-> "phase_equil", phase_pair |-> pp]
    /\ ret' = None
    /\ UNCHANGED <<seed, horizon_length, defined, dataVars, buildVars, costing,
                   rng, params>>

PhaseComponentSets == SUBSET (PhaseNames \X {"h2o", "co2"})
PhasePairs == PhaseNames \X PhaseNames

NextVLE ==
    \/ \E pcs \in PhaseComponentSets : BuildParameterBlock(pcs)
    \/ \E pp \in PhasePairs : PhaseEquil(pp)

SpecVLE == InitBuild /\ [][NextVLE]_vars
-----------------------------------------------------------------------------
(* Properties *)

RECURSIVE SumWeights(_, _)
SumWeights(w, keys) ==
    IF keys = {} THEN 0
    ELSE LET k == CHOOSE x \in keys : TRUE IN w[k] + SumWeights(w, keys \ {k})

\* C1: for horizon_length h > 0 and a raw series of L samples the daily
\* reshaper returns exactly floor(L/h) day-columns labelled 1..floor(L/h);
\* column d holds the h samples (d-1)*h .. d*h-1 (counted from 0) in their
\* order, and a trailing partial day is dropped.
C1_DailyColumns ==
    call.op = "reconfigure_raw_data" =>
        /\ (horizon_length > 0) = (err = "none")
        /\ err = "none" =>
             LET h == horizon_length
                 D == call.nrows \div h
                 t == ret.daily_data
             IN  /\ t.cols = [d \in 1..D |-> d]
                 /\ Len(t.data) = D
                 /\ \A d \in 1..D :
                       t.data[d] = [k \in 1..h |-> Cell(Columns[3], (d - 1) * h + k)]

C1_Witness ==
    /\ call.op = "reconfigure_raw_data"
    /\ err = "none"
    /\ horizon_length = 2
    /\ call.nrows = 5
    /\ Len(ret.daily_data.cols) = 2

C5_ClampEveryHour ==
    (call.op = "cluster_lmp_data" /\ err \in {"none", "IndexError"}) =>
        /\ err = "none"
        /\ \A d \in 1..call.n_clusters :
              /\ DOMAIN ret.lmp_data[d] = 0..(horizon_length - 1)
              /\ \A t \in 0..(horizon_length - 1) :
                    ret.lmp_data[d][t] =
                        IF ret.centers[d][t + 1] < Threshold
                        THEN 0 ELSE ret.centers[d][t + 1]

\* C6: get_optimal_n_clusters fits one clustering per k in kmin..kmax-1 in
\* increasing order (4..29 when both are omitted), after seeding; it returns
\* one inertia value per scanned k in that order and an n_clusters with
\* kmin <= n_clusters < kmax.
C6_SweepAndKnee ==
    (call.op = "get_optimal_n_clusters" /\ err = "none") =>
        LET lo == IF call.kmin = None THEN 4 ELSE call.kmin[1]
            hi == IF call.kmax = None THEN 30 ELSE call.kmax[1]
        IN  /\ Len(ret.calls) = 1 + (hi - lo)
            /\ \A i \in 1..(hi - lo) : ret.calls[i + 1] = <<"KMeans", lo + i - 1>>
            /\ Len(ret.inertia_values) = hi - lo
            /\ \E curve \in Curves :
                  \A i \in 1..(hi - lo) :
                      ret.inertia_values[i] = Inertia(curve, lo + i - 1)
            /\ ret.n_clusters # None
            /\ lo <= ret.n_clusters[1]
            /\ ret.n_clusters[1] < hi

C6_Witness ==
    /\ call.op = "get_optimal_n_clusters"
    /\ err = "none"
    /\ call.kmin = None
    /\ call.kmax = None
    /\ ret.n_clusters = Some(16)
    /\ ret.inertia_values[2] = 1225

\* C7 as stated: when every fit of the sweep was made and the knee detector
\* finds no elbow, get_optimal_n_clusters returns (None, inertia values)
\* without raising.
C7_NullKneeReturned ==
    (/\ call.op = "get_optimal_n_clusters"
     /\ ret.kmin < ret.kmax
     /\ Len(ret.inertia_values) = ret.kmax - ret.kmin
     /\ ret.knee = None) =>
        err = "none"
\* the call of append_lmp_data got past the parsing of the year labels
BranchEntered ==
    ~(call.column_name.list /\
      \E k \in 1..Len(call.column_name.names) : ~IsIntLabel(call.column_name.names[k]))

C3_Branches ==
    (call.op = "append_lmp_data" /\ BranchEntered) =>
        LET names == call.column_name.names
            L == call.nrows
        IN  /\ set_years = IF call.column_name.list
                           THEN Some([k \in 1..Len(names) |-> IntOf(names[k])])
                           ELSE None
            /\ call.n_clusters # None => set_days = Some(1..call.n_clusters[1])
            /\ (call.n_clusters = None /\ err # "DeveloperError") => set_days = None
            /\ (call.n_clusters = None /\ err = "none") =>
                  /\ set_time = 1..L
                  /\ n_time_points = L
                  /\ IF call.column_name.list
                     THEN /\ DOMAIN LMP =
                                {<<t, IntOf(names[k])>> : t \in 1..L, k \in 1..Len(names)}
                          /\ \A t \in 1..L, k \in 1..Len(names) :
                                LMP[<<t, IntOf(names[k])>>] = Cell(names[k], t)
                     ELSE /\ DOMAIN LMP = {<<t>> : t \in 1..L}
                          /\ \A t \in 1..L : LMP[<<t>>] = Cell(names[1], t)

C3_NoWeightAssigned ==
    (call'.op = "append_lmp_data" /\ call'.n_clusters = None) =>
        /\ WEIGHTS' = WEIGHTS
        /\ ("WEIGHTS" \in defined') = ("WEIGHTS" \in defined)

LoadOfFit(fit, n, times, y) ==
    LET o == ClusterOutcome(fit, n, <<>>)
    IN  Fill(o.lmp_data, o.weights, 1, n, times, y,
             [err |-> "none", LMP |-> EmptyDict, WEIGHTS |-> EmptyDict])

\* C4 as stated: a representative-day load clusters the selected price column
\* (column_name, or each year's column in turn), so the prices and weights it
\* stores come from a fit of that column's daily table, and a multi-year load
\* whose columns all exist completes for every year.
C4_ClustersSelectedColumn ==
    (/\ call.op = "append_lmp_data"
     /\ call.n_clusters # None
     /\ BranchEntered
     /\ \A k \in 1..Len(call.column_name.names) :
           call.column_name.names[k] \in ColumnSet) =>
        IF call.column_name.list
        THEN err # "AttributeError"
        ELSE err = "none" =>
               LET h == horizon_length
                   n == call.n_clusters[1]
                   values == Series(Sheet(call.nrows), call.column_name.names[1]).values
                   samples == generate_daily_data(values,
                                  [d \in 1..(call.nrows \div h) |-> d], h).daily_data.data
               IN  \E fit \in KMeansFits(samples, n) :
                      LET f == LoadOfFit(fit, n, n_time_points - 1, None)
                      IN  f.LMP = LMP /\ f.WEIGHTS = WEIGHTS

\* C8 as stated: no model instance holds a horizon_length <= 0.
C8_HorizonPositive == horizon_length > 0
ModelSteps == {"add_ramping_constraints", "add_startup_shutdown", "build_hourly_cashflows"}

Recognized == {"NPV", "Annualized NPV", "Net Profit"}

\* C10: for objective "NPV", "Annualized NPV" or "Net Profit" a build_cashflows
\* that returns leaves exactly one objective on the model, with sense
\* maximize, whose expression is NPV, Annualized_NPV or NET_PROFIT in that
\* order; "Net Profit" gives the net-profit variable and neither NPV nor the
\* annualized NPV.
C10_OneObjective ==
    (call.op = "build_cashflows" /\ err = "none" /\ call.args[1] \in Recognized) =>
        /\ {n \in DOMAIN components : components[n].kind = "Objective"} = {"obj"}
        /\ components["obj"].sense = "maximize"
        /\ components["obj"].expr =
              (CASE call.args[1] = "NPV" -> "NPV"
                 [] call.args[1] = "Annualized NPV" -> "Annualized_NPV"
                 [] call.args[1] = "Net Profit" -> "NET_PROFIT")
        /\ components["obj"].expr \in DOMAIN components
        /\ call.args[1] = "Net Profit" =>
              components[components["obj"].expr].kind = "Var"

C10_Witness ==
    /\ call.op = "build_cashflows"
    /\ err = "none"
    /\ call.args = <<"Net Profit">>
    /\ components["obj"].expr = "NET_PROFIT"
    /\ "build_hourly_cashflows" \in invoked
    /\ Len(mp_model.period) >= 1
\* C11 as stated: build_cashflows with an objective string that is none of
\* the three recognised ones raises an error; it never completes.
C11_UnknownObjectiveRejected ==
    (call.op = "build_cashflows" /\ call.args[1] \notin Recognized) => err # "none"

BuilderSteps ==
    ModelSteps \cup {"append_lmp_data", "build_multiperiod_model", "build_cashflows"}

\* C12 as stated: a builder step that fails leaves the model exactly as it was
\* before the call; a failing build_cashflows has attached none of CAPEX, FOM,
\* DEPRECIATION, NET_CASH_INFLOW or their constraints.
C12_FailedStepChangesNothing ==
    [][(call'.op \in BuilderSteps /\ err' # "none") =>
          /\ mp_model' = mp_model
          /\ components' = components
          /\ <<defined, dataVars>>' = <<defined, dataVars>>]_vars

\* C13 as stated: on one multi-period model no call of add_ramping_constraints
\* or add_startup_shutdown defines op_mode or startup of a period again.
C13_ModesDefinedOnce ==
    mp_model # NoModel => mp_model.redefined \cap {"op_mode", "startup"} = {}

\* C14 as stated: add_ramping_constraints and add_startup_shutdown look no
\* period up by a key of one particular arity, so on a model with periods
\* neither fails on a period key, whatever the shape of the keys.
C14_AnyKeyShape ==
    (/\ call.op \in {"add_ramping_constraints", "add_startup_shutdown"}
     /\ mp_model # NoModel
     /\ Len(mp_model.period) >= 2) => err # "KeyError"

\* the options the documentation of hx_costing lists, and the ones it marks
\* as the defaults
DocumentedHxTypes == {"floating_head", "fixed_head", "U-tube", "Kettle_vap"}
DocumentedMaterials == {"stain_steel", "carb_steel"}
DocumentedLengths == {"8ft", "12ft", "16ft", "20ft"}
DocumentedDefaults == [hx_type |-> "U-tube", FM |-> "stain_steel", L_factor |-> "8ft"]

Given(arg, documented) == arg = None \/ arg[1] \in documented

\* C19: hx_costing accepts every option value its documentation lists (on a
\* heat exchanger in SI units of a flowsheet that has its cost index), and a
\* call that leaves an argument out costs with the option the documentation
\* marks as the default: U-tube, stain_steel, 8ft.
C19_DocumentedOptions ==
    (/\ call.op = "hx_costing"
     /\ call.unit = [length |-> "m", pressure |-> "Pa"]
     /\ "CE_index" \in DOMAIN costing.flowsheet
     /\ Given(call.args[1], DocumentedHxTypes)
     /\ Given(call.args[2], DocumentedMaterials)
     /\ Given(call.args[3], DocumentedLengths))
    => /\ err = "none"
       /\ call.args[2] = None =>
             costing.unit["FM"].value = c_material[DocumentedDefaults.FM]
       /\ call.args[3] = None =>
             costing.unit["FL"].value = c_fl[DocumentedDefaults.L_factor]

\* an argument of the last costing call that no table of the routine has
UnrecognizedOption ==
    \/ /\ call.op = "global_costing_parameters"
       /\ call.args[1] # None
       /\ call.args[1][1] \notin DOMAIN ce_index_dic
    \/ /\ call.op = "hx_costing"
       /\ \/ ~Given(call.args[1], DOMAIN alf1)
          \/ ~Given(call.args[2], DOMAIN c_material)
          \/ ~Given(call.args[3], DOMAIN c_fl)
    \/ /\ call.op = "pressure_changer_costing"
       /\ \/ call.args.FM_mat \notin
                 DOMAIN material_factor_dic
                 \cup DOMAIN material_factor_reciprocal_pumps
                 \cup DOMAIN compressor_material_factor_dic
          \/ call.args.pump_type \notin
                 {"centrifugal", "external_gear", "reciprocating"}
          \/ call.args.driver_mover_type \notin DOMAIN FD_param

\* C20: a costing routine given an unrecognized categorical option fails, and
\* fails before it has attached any variable, parameter or constraint to the
\* costing block.
C20_RejectedBeforeAttaching ==
    [][(UnrecognizedOption)' =>
          /\ err' # "none"
          /\ call'.op = "global_costing_parameters" =>
                costing'.flowsheet = costing.flowsheet
          /\ call'.op # "global_costing_parameters" =>
                costing'.unit = NewBlock]_vars

\* C15: two calls of append_lmp_data with identical inputs on a model with the
\* same seed, both completing, leave identical set_time, set_days and
\* set_years and identical LMP and WEIGHTS, whatever was drawn from the
\* random source before each of them.
C15_SameLoadSameResult ==
    [][(/\ call.op = "append_lmp_data"
        /\ call' = call
        /\ seed' = seed
        /\ err = "none"
        /\ err' = "none") =>
          /\ <<set_time, set_days, set_years>>' = <<set_time, set_days, set_years>>
          /\ LMP' = LMP
          /\ WEIGHTS' = WEIGHTS]_vars

\* the sweep of the last call drew from the stream of the model's seed: it
\* called np.random.seed first and only once, with the model's seed, and every
\* fit began with the state that the seed and the fits before it determine
SeededOnce ==
    call.op = "get_optimal_n_clusters" =>
        /\ ret.calls[1] = <<"np.random.seed", seed>>
        /\ \A i \in 2..Len(ret.calls) : ret.calls[i][1] = "KMeans"
        /\ Len(ret.streams) = Len(ret.inertia_values)
        /\ \A i \in 1..Len(ret.streams) :
              ret.streams[i] = (SeedState(seed) + i - 1) % RngPeriod

\* two calls in a row with the same arguments, seed and data
SameSweepAgain ==
    /\ call.op = "get_optimal_n_clusters"
    /\ call' = call
    /\ seed' = seed
    /\ ret'.curve = ret.curve

\* C16: get_optimal_n_clusters seeds the random source exactly once, from the
\* model's seed, before the first fit of the sweep, and two calls with the
\* same seed and the same daily data make the same fits from the same random
\* stream and return the same inertia sequence (and the same n_clusters from
\* the same knee), whatever state the random source was in before each call.
C16_SeededSweep ==
    /\ [](SeededOnce)
    /\ [][SameSweepAgain =>
            /\ ret'.calls = ret.calls
            /\ ret'.streams = ret.streams
            /\ ret'.inertia_values = ret.inertia_values
            /\ ret'.knee = ret.knee => ret'.n_clusters = ret.n_clusters]_vars

C16_Witness ==
    /\ call.op = "get_optimal_n_clusters"
    /\ err = "none"
    /\ seed = 7
    /\ Len(ret.streams) >= 2
    /\ ret.streams[1] = SeedState(7)
    /\ rng = (SeedState(7) + Len(ret.streams)) % RngPeriod

\* C17: build_hourly_cashflows defines on every period net_cash_inflow =
\* elec_revenue - non_fuel_vom - fuel_cost - carbon_price, each term the sum of
\* that quantity over exactly the operation-kind sub-models of the period, and
\* build_cashflows constrains NET_CASH_INFLOW to the sum of net_cash_inflow
\* over all periods.
C17_NetCashInflow ==
    /\ (call.op = "build_hourly_cashflows" /\ err = "none"
        /\ Len(mp_model.period) >= 1) =>
          /\ HourlyNames \subseteq mp_model.exprs
          /\ mp_model.hourly["net_cash_inflow"].plus = {"elec_revenue"}
          /\ mp_model.hourly["net_cash_inflow"].minus =
                {"non_fuel_vom", "fuel_cost", "carbon_price"}
          /\ \A q \in HourlyNames \ {"net_cash_inflow"} :
                /\ mp_model.hourly[q].minus = {}
                /\ \A t \in mp_model.hourly[q].plus :
                      t[1][1] = "operation" /\ t[2] = q
                /\ \A i \in 1..mp_model.flowsheet.operation :
                      <<<<"operation", i>>, q>> \in mp_model.hourly[q].plus
                /\ Cardinality(mp_model.hourly[q].plus) =
                      mp_model.flowsheet.operation
    /\ (call.op = "build_cashflows" /\ err = "none") =>
          /\ components["net_cash_inflow_calculation"].expr =
                "NET_CASH_INFLOW == sum(net_cash_inflow)"
          /\ components["net_cash_inflow_calculation"].terms =
                {<<p, "net_cash_inflow">> : p \in DOMAIN mp_model.period}

C17_Witness ==
    /\ call.op = "build_cashflows"
    /\ err = "none"
    /\ Len(mp_model.period) >= 2
    /\ mp_model.flowsheet.operation = 1
    /\ mp_model.flowsheet.design = 1
    /\ mp_model.hourly["fuel_cost"].plus = {<<<<"operation", 1>>, "fuel_cost">>}
    /\ Cardinality(components["net_cash_inflow_calculation"].terms) =
          Len(mp_model.period)

\* C18: build_cashflows constrains DEPRECIATION = CAPEX / lifetime, CORP_TAX
\* only from below (>=, not ==), NET_PROFIT = NET_CASH_INFLOW + other_revenue
\* - other_costs - FOM - CORP_TAX, and CAPEX and FOM to the sums of capex and
\* fom over exactly the design-kind sub-models.
C18_Cashflows ==
    (call.op = "build_cashflows" /\ err = "none") =>
        /\ components["dep_calculation"].expr = "DEPRECIATION == CAPEX / lifetime"
        /\ components["corp_tax_calculation"].expr =
              "CORP_TAX >= corp_tax * (NET_CASH_INFLOW + other_revenue - other_costs - FOM - DEPRECIATION)"
        /\ components["net_profit_calculation"].expr =
              "NET_PROFIT == NET_CASH_INFLOW + other_revenue - other_costs - FOM - CORP_TAX"
        /\ \A n \in {"dep_calculation", "corp_tax_calculation",
                     "net_profit_calculation", "capex_calculation",
                     "fom_calculation"} : components[n].kind = "Constraint"
        /\ components["capex_calculation"].expr = "CAPEX == sum(capex)"
        /\ components["fom_calculation"].expr = "FOM == sum(fom)"
        /\ \A q \in {"capex", "fom"} :
              LET terms == components[q \o "_calculation"].terms
              IN  /\ \A t \in terms : t[1][2][1] = "design" /\ t[2] = q
                  /\ \A p \in DOMAIN mp_model.period :
                        \A i \in 1..mp_model.flowsheet.design :
                            <<<<p, <<"design", i>>>>, q>> \in terms
                  /\ Cardinality(terms) =
                        Len(mp_model.period) * mp_model.flowsheet.design

C18_Witness ==
    /\ call.op = "build_cashflows"
    /\ err = "none"
    /\ Len(mp_model.period) >= 2
    /\ mp_model.flowsheet.design = 1
    /\ mp_model.flowsheet.operation = 1
    /\ <<<<2, <<"design", 1>>>>, "capex">> \in components["capex_calculation"].terms
    /\ components["corp_tax_calculation"].kind = "Constraint"

\* the last call was add_ramping_constraints and it built both constraints
RampBuilt ==
    /\ call.op = "add_ramping_constraints"
    /\ err = "none"
    /\ {"ramp_up_con", "ramp_down_con"} \subseteq DOMAIN mp_model.cons

\* C21 as stated: with P periods add_ramping_constraints creates one ramp-up
\* and one ramp-down constraint for each t in 2..P-1, and the constraint of
\* index t relates the t-th and the (t-1)-th period of the period list,
\* counted from 1.
C21_RampPairs ==
    RampBuilt =>
        \A name \in {"ramp_up_con", "ramp_down_con"} :
            /\ mp_model.cons[name].index = 2..(Len(mp_model.period) - 1)
            /\ \A t \in mp_model.cons[name].index :
                  /\ DOMAIN mp_model.cons[name].body[t].lhs =
                        {<<"opt_power", t>>, <<"opt_power", t - 1>>}
                  /\ \A atom \in DOMAIN mp_model.cons[name].body[t].rhs :
                        atom[2] \in {t, t - 1}

\* the coefficient of <<quantity, period>> in a linear expression
Coef(lin, atom) == IF atom \in DOMAIN lin THEN lin[atom] ELSE 0

\* C22: the ramp-up constraint of an index relates the period t the index
\* stands for and the period t-1 before it as
\*   opt_power[t] - opt_power[t-1] <=
\*       startup_limit*startup[t] - minimum_opt_limit*startup[t-1]
\*     + ramp_up_limit*op_mode[t]
\*     + minimum_opt_limit*(op_mode[t] - op_mode[t-1]);
\* with minimum_opt_limit = 0 and the default limits this is exactly
\*   opt_power[t] - opt_power[t-1] <= 100*startup[t] + 110*op_mode[t].
C22_RampUpForm ==
    RampBuilt =>
        \A i \in mp_model.cons["ramp_up_con"].index :
            LET a == call.args[1]
                b == mp_model.cons["ramp_up_con"].body[i]
                t == CHOOSE p \in 1..Len(mp_model.period) :
                         Coef(b.lhs, <<"opt_power", p>>) = 1
            IN  /\ b.rel = "<="
                /\ b.const = 0
                /\ t >= 2
                /\ b.lhs = (<<"opt_power", t>> :> 1) @@ (<<"opt_power", t - 1>> :> -1)
                /\ DOMAIN b.rhs \subseteq
                      {"startup", "op_mode"} \X {t, t - 1}
                /\ Coef(b.rhs, <<"startup", t>>) = a.startup_limit
                /\ Coef(b.rhs, <<"startup", t - 1>>) = 0 - a.minimum_opt_limit
                /\ Coef(b.rhs, <<"op_mode", t>>) =
                      a.ramp_up_limit + a.minimum_opt_limit
                /\ Coef(b.rhs, <<"op_mode", t - 1>>) = 0 - a.minimum_opt_limit
                /\ a = RampDefaults =>
                      b.rhs = (<<"startup", t>> :> 100) @@ (<<"op_mode", t>> :> 110)

C22_Witness ==
    /\ RampBuilt
    /\ call.args[1].minimum_opt_limit = 20
    /\ mp_model.cons["ramp_up_con"].index = {2, 3}
    /\ mp_model.cons["ramp_up_con"].body[3].rhs[<<"op_mode", 4>>] = 90
    /\ mp_model.cons["ramp_up_con"].body[3].rhs[<<"startup", 3>>] = -20

\* the position, counted from 1, of the period that the index t of a
\* constraint of add_startup_shutdown stands for (range_time_periods[t])
PeriodOf(t) == t + 1

StartupCalled ==
    /\ call.op = "add_startup_shutdown"
    /\ mp_model # NoModel
    /\ call.args[1] >= 1
    /\ call.args[2] >= 1

\* the startup constraints are there, one for each t in UT..P-1: the sum of
\* startup over the UT-1 periods immediately before t is at most op_mode at t,
\* and every period named is a period of the list
StartupConstraints ==
    LET UT == call.args[1]
        P == Len(mp_model.period)
    IN  /\ err = "none"
        /\ "startup_con1" \in DOMAIN mp_model.cons
        /\ mp_model.cons["startup_con1"].constructed
        /\ mp_model.cons["startup_con1"].index = UT..(P - 1)
        /\ \A t \in UT..(P - 1) :
              LET b == mp_model.cons["startup_con1"].body[t]
              IN  /\ b.lhs = [a \in {"startup"} \X
                                   ((PeriodOf(t) - UT + 1)..(PeriodOf(t) - 1)) |-> 1]
                  /\ b.rel = "<="
                  /\ b.const = 0
                  /\ b.rhs = (<<"op_mode", PeriodOf(t)>> :> 1)
                  /\ \A a \in DOMAIN b.lhs \cup DOMAIN b.rhs : a[2] \in 1..P

\* C23 as stated: for every UT >= 1 and every number of periods P,
\* add_startup_shutdown creates a startup constraint for each t in UT..P-1:
\* the sum of the startup indicators over the UT-1 periods immediately
\* preceding t does not exceed op_mode at t, and every period the window
\* refers to exists.
C23_StartupWindow == StartupCalled => StartupConstraints

\* C23 as amended: the same for every UT >= 1, DT >= 1 and every number of
\* periods P >= max(UT, DT); with fewer periods the call raises ValueError.
C23_StartupWindowEnoughPeriods ==
    (/\ StartupCalled
     /\ Len(mp_model.period) >= call.args[1]
     /\ Len(mp_model.period) >= call.args[2]) => StartupConstraints

C23_Witness ==
    /\ StartupCalled
    /\ call.args = <<4, 4>>
    /\ err = "none"
    /\ Len(mp_model.period) = 2 * SmallRows
    /\ DOMAIN mp_model.cons["startup_con1"].body[4].lhs =
          {<<"startup", 2>>, <<"startup", 3>>, <<"startup", 4>>}
    /\ DOMAIN mp_model.cons["startup_con1"].body[4].rhs = {<<"op_mode", 5>>}

\* the shutdown constraints are there, one for each t in DT..P-1: the sum of
\* startup over the DT+1 periods ending at t is at most 1 - op_mode at t-DT,
\* and every period named is a period of the list
ShutdownConstraints ==
    LET DT == call.args[2]
        P == Len(mp_model.period)
    IN  /\ err = "none"
        /\ "stutdown_con1" \in DOMAIN mp_model.cons
        /\ mp_model.cons["stutdown_con1"].constructed
        /\ mp_model.cons["stutdown_con1"].index = DT..(P - 1)
        /\ \A t \in DT..(P - 1) :
              LET b == mp_model.cons["stutdown_con1"].body[t]
              IN  /\ b.lhs = [a \in {"startup"} \X
                                   ((PeriodOf(t) - DT)..PeriodOf(t)) |-> 1]
                  /\ b.rel = "<="
                  /\ b.const = 1
                  /\ b.rhs = (<<"op_mode", PeriodOf(t) - DT>> :> -1)
                  /\ \A a \in DOMAIN b.lhs \cup DOMAIN b.rhs : a[2] \in 1..P

\* C24 as stated: for every DT >= 1 and every number of periods P,
\* add_startup_shutdown creates a shutdown constraint for each t in DT..P-1:
\* the sum of the startup indicators over the DT+1 periods ending at t does
\* not exceed 1 - op_mode[t-DT], and every period the window refers to exists.
C24_ShutdownWindow == StartupCalled => ShutdownConstraints

\* C24 as amended: the same for every UT >= 1, DT >= 1 and every number of
\* periods P >= max(UT, DT); with fewer periods the call raises ValueError.
C24_ShutdownWindowEnoughPeriods ==
    (/\ StartupCalled
     /\ Len(mp_model.period) >= call.args[2]
     /\ Len(mp_model.period) >= call.args[1]) => ShutdownConstraints

C24_Witness ==
    /\ StartupCalled
    /\ call.args = <<4, 4>>
    /\ err = "none"
    /\ Len(mp_model.period) = 2 * SmallRows
    /\ DOMAIN mp_model.cons["stutdown_con1"].body[4].lhs =
          {"startup"} \X (1..5)
    /\ mp_model.cons["stutdown_con1"].body[4].rhs = (<<"op_mode", 1>> :> -1)

\* C25 as stated: add_ramping_constraints builds its ramp-up and ramp-down
\* constraints also when add_startup_shutdown was called on the model before:
\* with op_mode already defined on the periods, the list the ramp rules index
\* into still holds every period, so the rules find the periods they name.
C25_RampAfterStartup ==
    (/\ call.op = "add_ramping_constraints"
     /\ mp_model # NoModel
     /\ "startup_con1" \in DOMAIN mp_model.cons
     /\ mp_model.flowsheet.opt_power
     /\ \E i \in DOMAIN mp_model.period : mp_model.period[i] = <<1, 1>>) =>
        /\ err = "none"
        /\ \A name \in {"ramp_up_con", "ramp_down_con"} :
              /\ name \in DOMAIN mp_model.cons
              /\ mp_model.cons[name].constructed
              /\ mp_model.cons[name].index = 2..(Len(mp_model.period) - 1)

\* C26 as stated: in the representative-day branches of append_lmp_data every
\* (t, d) that is iterated reads an existing hour of the profile of day d
\* (no KeyError), and the keys loaded for a day cover each of the hours of its
\* profile exactly once: as many keys as the profile has hours, none skipped.
C26_ProfileCovered ==
    (/\ call.op = "append_lmp_data"
     /\ call.n_clusters # None
     /\ BranchEntered
     /\ \A k \in 1..Len(call.column_name.names) :
           call.column_name.names[k] \in ColumnSet
     /\ err \in {"none", "KeyError"}) =>
        /\ err = "none"
        /\ \A d \in 1..call.n_clusters[1] :
              Cardinality({key \in DOMAIN LMP : key[2] = d}) = horizon_length

\* C27 as stated: after a sequence of append_lmp_data calls the price and
\* weight data are those of the most recent (completed) call: every key of
\* LMP has the shape that call writes, over its own hours, and after a
\* full-year load the model holds no weight left by an earlier
\* representative-day load.
C27_OnlyLastLoad ==
    (call.op = "append_lmp_data" /\ err = "none") =>
        /\ \A key \in DOMAIN LMP :
              /\ Len(key) = 1 + (IF call.n_clusters # None THEN 1 ELSE 0)
                              + (IF call.column_name.list THEN 1 ELSE 0)
              /\ key[1] \in set_time
        /\ call.n_clusters = None => WEIGHTS = EmptyDict

\* C28 as stated: generate_daily_data terminates for every constructed model
\* and every finite series: whenever reconfigure_raw_data gets as far as
\* calling it, the call returns.
C28_DailyDataReturns ==
    (/\ call.op = "reconfigure_raw_data"
     /\ err \notin {"AttributeError", "ZeroDivisionError", "UnboundLocalError"}) =>
        err = "none"

\* the components of kind k that the step added to the state block
AddedOfKind(k) ==
    {n \in DOMAIN state_block'.components \ DOMAIN state_block.components :
        state_block'.components[n].kind = k}

\* the components that are in the vapor phase of the pair and not in its liquid phase
VaporOnly(pp) ==
    LET l == CHOOSE p \in {pp[1], pp[2]} : PhaseKind[p] = "liquid"
        v == CHOOSE p \in {pp[1], pp[2]} : PhaseKind[p] = "vapor"
    IN  {j \in {"h2o", "co2"} : /\ <<v, j>> \in params._phase_component_set
                                /\ <<l, j>> \notin params._phase_component_set}

\* C29: phase_equil raises ConfigurationError for every phase pair that is
\* not one liquid and one vapor phase (in either order) and then leaves the
\* state block as it was; for a vapor-liquid pair it adds exactly one _teq
\* constraint of that pair, and it adds the _t1 variable and the _t1
\* constraint exactly when no component is vapor-only.
C29_SmoothVLE ==
    [][call'.op = "phase_equil" =>
        LET pp == call'.phase_pair
            sfx == "_" \o pp[1] \o "_" \o pp[2]
            teq == {"_teq_constraint" \o sfx}
            t1 == IF VaporOnly(pp) = {} THEN {"_t1" \o sfx} ELSE {}
            t1con == IF VaporOnly(pp) = {} THEN {"_t1_constraint" \o sfx} ELSE {}
        IN  IF {PhaseKind[pp[1]], PhaseKind[pp[2]]} = {"liquid", "vapor"}
            THEN /\ err' = "none"
                 /\ AddedOfKind("Constraint") = teq \cup t1con
                 /\ AddedOfKind("Var") = t1
                 /\ \A n \in DOMAIN state_block.components :
                       /\ n \in DOMAIN state_block'.components
                       /\ state_block'.components[n] = state_block.components[n]
            ELSE /\ err' = "ConfigurationError"
                 /\ state_block'.components = state_block.components]_vars

\* C29 witness: both orders of the vapor-liquid pair were handled on one
\* state block, the second with the intermediate temperature
C29_Witness ==
    /\ call.op = "phase_equil" /\ call.phase_pair = <<"Vap", "Liq">> /\ err = "none"
    /\ <<"Liq", "Vap">> \in state_block.handled
    /\ {"_t1_Vap_Liq", "_t1_constraint_Vap_Liq", "_teq_constraint_Vap_Liq",
        "_teq_constraint_Liq_Vap"} \subseteq DOMAIN state_block.components

====
